---- MODULE Spec2Model ----
(***************************************************************************)
(* A model of the line editor "red": the Buffer and BufCursor of           *)
(* src/buf.rs and the BufEditor controller of src/ed.rs.                   *)
(*                                                                         *)
(* Rows and columns are 0-based as in the source; a line is a sequence of  *)
(* one-character strings, so line(buf, row) is buf[row + 1].  A panic of   *)
(* the source is the field ok = FALSE of the result of the operator that   *)
(* models the panicking function.                                          *)
(***************************************************************************)
EXTENDS Integers, Sequences, FiniteSets, TLC

VARIABLES
  lines,     \* Buffer.lines of the session's buffer
  editor,    \* BufEditor.editor
  anchor,    \* BufEditor.anchor
  size,      \* win.size of the window handed to the latest call
  key,       \* the key handed to the latest handle_key
  op,        \* the latest operation: "new", "handle_key", "draw" or a BufCursor method
  calls,     \* the Window::put_at calls issued by the latest operation
  panicked,  \* TRUE once an operation has panicked
  cur,       \* a free-standing BufCursor: the one the BufCursor methods act
             \* on, or the argument of the latest Buffer method
  before,    \* the buffer a sequence of Buffer methods started from
  start,     \* the cursor a sequence of BufCursor methods or keys started from
  windows,   \* WindowManager.windows
  win,       \* the Windows resolved by borrow_mut and still alive
  wid,       \* the handle the latest create returned or borrow_mut was given
  screen,    \* the current size of the Screen
  args,      \* what the latest operation on a Window was given
  ret,       \* what the latest operation returned
  release,   \* TRUE in a build without overflow checks
  mode,      \* mode of edit_buffer (src/main.rs)
  pc,        \* where edit_buffer stands
  events,    \* the key events stdin still holds
  clip       \* clip of edit_buffer

\* the state of the Screen and its WindowManager
scrvars == <<windows, win, wid, screen, args, ret, release>>

\* the state of edit_buffer
sessvars == <<mode, pc, events, clip>>

vars ==
  <<lines, editor, anchor, size, key, op, calls, panicked, cur, before, start,
    scrvars, sessvars>>

----------------------------------------------------------------------------
(* Bounds of the model *)

MaxHeight == 3     \* most lines a buffer grows to
MaxChars == 2      \* most characters a buffer holds, over all its lines
MaxRows == 2       \* most rows of a window
MaxCols == 2       \* most columns of a window
MaxWindows == 2    \* most windows a WindowManager holds
MaxEvents == 3     \* most key events of a session
MaxClip == 1       \* most lines the clip of a session holds

Chars == {"a", "b"}
NL == "\n"

----------------------------------------------------------------------------
(* Helpers *)

Min(a, b) == IF a < b THEN a ELSE b

RECURSIVE TotalChars(_)
TotalChars(buf) ==
  IF buf = <<>> THEN 0 ELSE Len(Head(buf)) + TotalChars(Tail(buf))

\* every sequence over S of length at most n
SeqsUpTo(S, n) == UNION {[1..k -> S] : k \in 0..n}

\* every buffer within the bounds
Buffers ==
  {b \in SeqsUpTo(SeqsUpTo(Chars, MaxChars), MaxHeight) : TotalChars(b) <= MaxChars}

\* s with x inserted before 0-based index i (String::insert, Vec::insert)
InsertAt(s, i, x) == SubSeq(s, 1, i) \o <<x>> \o SubSeq(s, i + 1, Len(s))

\* s without the element at 0-based index i (String::remove, Vec::remove)
RemoveAt(s, i) == SubSeq(s, 1, i) \o SubSeq(s, i + 2, Len(s))

----------------------------------------------------------------------------
(* Buffer (src/buf.rs) *)

BufCursor_at(row, col) == [row |-> row, col |-> col]

BufCursor_new == BufCursor_at(0, 0)

height(buf) == Len(buf)

line(buf, row) == buf[row + 1]

\* width panics for row > height
width_panics(buf, row) == row > height(buf)

\* width that gives the virtual row the width of the last line
width_last_line(buf, row) ==
  IF row >= height(buf)
  THEN (IF height(buf) > 0 THEN Len(line(buf, height(buf) - 1)) ELSE 0)
  ELSE Len(line(buf, row))

width(buf, row) == IF row >= height(buf) THEN 0 ELSE Len(line(buf, row))

\* insert_at that inserts behind the character under the cursor
insert_at_after(buf, ch, c) ==
  IF c.row > height(buf) THEN [ok |-> FALSE, lines |-> buf]
  ELSE IF c.col > width(buf, c.row) THEN [ok |-> FALSE, lines |-> buf]
  ELSE LET b1 == IF c.row = height(buf) THEN Append(buf, <<>>) ELSE buf
       IN [ok |-> TRUE,
           lines |-> [b1 EXCEPT ![c.row + 1] =
                        InsertAt(@, IF c.col < Len(@) THEN c.col + 1 ELSE c.col, ch)]]

\* insert_at that appends the new line before it checks the column
insert_at_push_first(buf, ch, c) ==
  IF c.row > height(buf) THEN [ok |-> FALSE, lines |-> buf]
  ELSE LET b1 == IF c.row = height(buf) THEN Append(buf, <<>>) ELSE buf
       IN IF c.col > width(b1, c.row) THEN [ok |-> FALSE, lines |-> b1]
          ELSE [ok |-> TRUE,
                lines |-> [b1 EXCEPT ![c.row + 1] = InsertAt(@, c.col, ch)]]

\* insert_at that pushes ch at the end of the line, whatever the column
insert_at_end(buf, ch, c) ==
  IF c.row > height(buf) THEN [ok |-> FALSE, lines |-> buf]
  ELSE IF c.col > width(buf, c.row) THEN [ok |-> FALSE, lines |-> buf]
  ELSE LET b1 == IF c.row = height(buf) THEN Append(buf, <<>>) ELSE buf
       IN [ok |-> TRUE, lines |-> [b1 EXCEPT ![c.row + 1] = Append(@, ch)]]

insert_at(buf, ch, c) ==
  IF c.row > height(buf) THEN [ok |-> FALSE, lines |-> buf]
  ELSE IF c.col > width(buf, c.row) THEN [ok |-> FALSE, lines |-> buf]
  ELSE LET b1 == IF c.row = height(buf) THEN Append(buf, <<>>) ELSE buf
       IN [ok |-> TRUE,
           lines |-> [b1 EXCEPT ![c.row + 1] = InsertAt(@, c.col, ch)]]

\* delete_before that removes the character under the cursor
delete_before_at(buf, c) ==
  IF c.col = 0 THEN [ok |-> FALSE, lines |-> buf]
  ELSE IF c.row >= height(buf) THEN [ok |-> FALSE, lines |-> buf]
  ELSE IF c.col > width(buf, c.row) THEN [ok |-> FALSE, lines |-> buf]
  ELSE [ok |-> TRUE,
        lines |-> [buf EXCEPT ![c.row + 1] = RemoveAt(@, c.col)]]

delete_before(buf, c) ==
  IF c.col = 0 THEN [ok |-> FALSE, lines |-> buf]
  ELSE IF c.row >= height(buf) THEN [ok |-> FALSE, lines |-> buf]
  ELSE IF c.col > width(buf, c.row) THEN [ok |-> FALSE, lines |-> buf]
  ELSE [ok |-> TRUE,
        lines |-> [buf EXCEPT ![c.row + 1] = RemoveAt(@, c.col - 1)]]

\* merge_next_line_up that puts the next line in front of this one
merge_next_line_up_prepend(buf, c) ==
  IF c.row + 1 >= height(buf) THEN [ok |-> FALSE, lines |-> buf]
  ELSE LET l == line(buf, c.row + 1)
           b1 == RemoveAt(buf, c.row + 1)
       IN [ok |-> TRUE, lines |-> [b1 EXCEPT ![c.row + 1] = l \o @]]

merge_next_line_up(buf, c) ==
  IF c.row + 1 >= height(buf) THEN [ok |-> FALSE, lines |-> buf]
  ELSE LET l == line(buf, c.row + 1)
           b1 == RemoveAt(buf, c.row + 1)
       IN [ok |-> TRUE, lines |-> [b1 EXCEPT ![c.row + 1] = @ \o l]]

\* break_line_at that pushes the new line at the end of the buffer
break_line_at_push(buf, c) ==
  IF c.row > height(buf) THEN [ok |-> FALSE, lines |-> buf]
  ELSE IF c.col > width(buf, c.row) THEN [ok |-> FALSE, lines |-> buf]
  ELSE IF c.row = height(buf) THEN [ok |-> TRUE, lines |-> Append(buf, <<>>)]
  ELSE LET l == line(buf, c.row)
           new_line == SubSeq(l, c.col + 1, Len(l))
           b1 == [buf EXCEPT ![c.row + 1] = SubSeq(l, 1, c.col)]
       IN [ok |-> TRUE, lines |-> Append(b1, new_line)]

\* break_line_at that returns on the virtual row without appending a line
break_line_at_no_append(buf, c) ==
  IF c.row > height(buf) THEN [ok |-> FALSE, lines |-> buf]
  ELSE IF c.col > width(buf, c.row) THEN [ok |-> FALSE, lines |-> buf]
  ELSE IF c.row = height(buf) THEN [ok |-> TRUE, lines |-> buf]
  ELSE LET l == line(buf, c.row)
           new_line == SubSeq(l, c.col + 1, Len(l))
           b1 == [buf EXCEPT ![c.row + 1] = SubSeq(l, 1, c.col)]
       IN [ok |-> TRUE, lines |-> InsertAt(b1, c.row + 1, new_line)]

break_line_at(buf, c) ==
  IF c.row > height(buf) THEN [ok |-> FALSE, lines |-> buf]
  ELSE IF c.col > width(buf, c.row) THEN [ok |-> FALSE, lines |-> buf]
  ELSE IF c.row = height(buf) THEN [ok |-> TRUE, lines |-> Append(buf, <<>>)]
  ELSE LET l == line(buf, c.row)
           new_line == SubSeq(l, c.col + 1, Len(l))
           b1 == [buf EXCEPT ![c.row + 1] = SubSeq(l, 1, c.col)]
       IN [ok |-> TRUE, lines |-> InsertAt(b1, c.row + 1, new_line)]

----------------------------------------------------------------------------
(* BufCursor (src/buf.rs): each method gives [ok, cur] *)

Moved(c) == [ok |-> TRUE, cur |-> c]

MovePanic(c) == [ok |-> FALSE, cur |-> c]

\* move_right that stops at the end of the last line
move_right_clamped(c, buf) ==
  IF c.row < height(buf)
  THEN IF c.col < width(buf, c.row)
       THEN Moved([c EXCEPT !.col = @ + 1])
       ELSE IF c.row + 1 < height(buf)
            THEN Moved(BufCursor_at(c.row + 1, 0))
            ELSE Moved(c)
  ELSE Moved(c)

move_right(c, buf) ==
  IF c.row < height(buf)
  THEN IF c.col < width(buf, c.row)
       THEN Moved([c EXCEPT !.col = @ + 1])
       ELSE Moved(BufCursor_at(c.row + 1, 0))
  ELSE Moved(c)

\* move_left that wraps to the width of the row it leaves
move_left_stale_width(c, buf) ==
  IF c.col > 0 THEN Moved([c EXCEPT !.col = @ - 1])
  ELSE IF c.row > 0
       THEN Moved(BufCursor_at(c.row - 1, width(buf, c.row)))
       ELSE Moved(c)

\* move_left that wraps to the start of the previous line
move_left_to_start(c, buf) ==
  IF c.col > 0 THEN Moved([c EXCEPT !.col = @ - 1])
  ELSE IF c.row > 0
       THEN Moved(BufCursor_at(c.row - 1, 0))
       ELSE Moved(c)

move_left(c, buf) ==
  IF c.col > 0 THEN Moved([c EXCEPT !.col = @ - 1])
  ELSE IF c.row > 0
       THEN IF width_panics(buf, c.row - 1)
            THEN MovePanic([c EXCEPT !.row = @ - 1])
            ELSE Moved(BufCursor_at(c.row - 1, width(buf, c.row - 1)))
       ELSE Moved(c)

\* trim_cursor_to_end_of_line that leaves the column alone
trim_cursor_never(c, buf) ==
  IF width_panics(buf, c.row) THEN MovePanic(c) ELSE Moved(c)

trim_cursor_to_end_of_line(c, buf) ==
  IF width_panics(buf, c.row) THEN MovePanic(c)
  ELSE IF c.col > width(buf, c.row)
       THEN Moved([c EXCEPT !.col = width(buf, c.row)])
       ELSE Moved(c)

\* move_up that wraps from the first row to the virtual row
move_up_wrapping(c, buf) ==
  trim_cursor_to_end_of_line(
    IF c.row > 0 THEN [c EXCEPT !.row = @ - 1] ELSE [c EXCEPT !.row = height(buf)], buf)

move_up(c, buf) ==
  trim_cursor_to_end_of_line(IF c.row > 0 THEN [c EXCEPT !.row = @ - 1] ELSE c, buf)

move_down(c, buf) ==
  trim_cursor_to_end_of_line(
    IF c.row < height(buf) THEN [c EXCEPT !.row = @ + 1] ELSE c, buf)

move_to_start_of_line(c, buf) == Moved([c EXCEPT !.col = 0])

move_to_end_of_line(c, buf) ==
  IF width_panics(buf, c.row) THEN MovePanic(c)
  ELSE Moved([c EXCEPT !.col = width(buf, c.row)])

\* move_to_end_of_prev_line that returns at once on the first row
move_to_end_of_prev_line_guarded(c, buf) ==
  IF c.row = 0 THEN Moved(c)
  ELSE LET u == move_up(c, buf)
       IN IF u.ok THEN move_to_end_of_line(u.cur, buf) ELSE u

move_to_end_of_prev_line(c, buf) ==
  LET u == move_up(c, buf)
  IN IF u.ok THEN move_to_end_of_line(u.cur, buf) ELSE u

move_to_start_of_next_line(c, buf) ==
  LET d == move_down(c, buf)
  IN IF d.ok THEN move_to_start_of_line(d.cur, buf) ELSE d

----------------------------------------------------------------------------
(* BufEditor (src/ed.rs) *)

Size(rows, cols) == [rows |-> rows, cols |-> cols]

Position(row, col) == [row |-> row, col |-> col]

Key(k, ch) == [k |-> k, ch |-> ch]

\* the keys of termion::event::Key that handle_key tells apart; Esc stands
\* for every key of the match's last arm
Keys ==
  {Key(k, "") : k \in {"Left", "Right", "Up", "Down", "Backspace", "Esc"}}
    \cup {Key("Char", ch) : ch \in Chars \cup {NL}}

\* the window sizes handed to handle_key and draw: at least 1 x 1, where
\* the usize arithmetic of update_anchor stays in the naturals
Sizes == {Size(r, c) : r \in 1..MaxRows, c \in 1..MaxCols}

\* update_anchor that scrolls one cell short to the right and downwards
update_anchor_short(ed, an, sz) ==
  LET c1 == IF ed.col < an.col THEN ed.col ELSE an.col
      c2 == IF ed.col > c1 + sz.cols - 1 THEN ed.col - sz.cols ELSE c1
      r1 == IF ed.row < an.row THEN ed.row ELSE an.row
      r2 == IF ed.row > r1 + sz.rows - 1 THEN ed.row - sz.rows ELSE r1
  IN BufCursor_at(r2, c2)

\* update_anchor that puts the editor in the first column and row of the
\* window whenever it has to scroll
update_anchor_jump(ed, an, sz) ==
  LET c1 == IF ed.col < an.col THEN ed.col ELSE an.col
      c2 == IF ed.col > c1 + sz.cols - 1 THEN ed.col ELSE c1
      r1 == IF ed.row < an.row THEN ed.row ELSE an.row
      r2 == IF ed.row > r1 + sz.rows - 1 THEN ed.row ELSE r1
  IN BufCursor_at(r2, c2)

update_anchor(ed, an, sz) ==
  LET c1 == IF ed.col < an.col THEN ed.col ELSE an.col
      c2 == IF ed.col > c1 + sz.cols - 1 THEN ed.col - sz.cols + 1 ELSE c1
      r1 == IF ed.row < an.row THEN ed.row ELSE an.row
      r2 == IF ed.row > r1 + sz.rows - 1 THEN ed.row - sz.rows + 1 ELSE r1
  IN BufCursor_at(r2, c2)

\* update_anchor computes on usize: anchor + size - 1 goes below zero when
\* anchor + size is 0, and editor - size + 1, computed when the editor is
\* past anchor + size - 1, goes below zero when the editor is less than size
update_anchor_underflows(ed, an, sz) ==
  LET c1 == IF ed.col < an.col THEN ed.col ELSE an.col
      r1 == IF ed.row < an.row THEN ed.row ELSE an.row
  IN \/ c1 + sz.cols < 1
     \/ ed.col > c1 + sz.cols - 1 /\ ed.col < sz.cols
     \/ r1 + sz.rows < 1
     \/ ed.row > r1 + sz.rows - 1 /\ ed.row < sz.rows

\* update_anchor in a build without overflow checks: anchor + size - 1
\* below zero wraps to the greatest usize, which no editor coordinate exceeds
update_anchor_wrapping(ed, an, sz) ==
  LET c1 == IF ed.col < an.col THEN ed.col ELSE an.col
      c2 == IF c1 + sz.cols < 1 THEN c1
            ELSE IF ed.col > c1 + sz.cols - 1 THEN ed.col - sz.cols + 1 ELSE c1
      r1 == IF ed.row < an.row THEN ed.row ELSE an.row
      r2 == IF r1 + sz.rows < 1 THEN r1
            ELSE IF ed.row > r1 + sz.rows - 1 THEN ed.row - sz.rows + 1 ELSE r1
  IN BufCursor_at(r2, c2)

\* the match of handle_key, before update_anchor: [ok, lines, editor]
Handled(ok, buf, ed) == [ok |-> ok, lines |-> buf, editor |-> ed]

\* the match with its last arm deleting the character before the editor
handle_key_match_fallthrough(buf, ed, k) ==
  CASE k.k = "Left" ->
         LET m == move_left(ed, buf) IN Handled(m.ok, buf, m.cur)
    [] k.k = "Right" ->
         LET m == move_right(ed, buf) IN Handled(m.ok, buf, m.cur)
    [] k.k = "Up" ->
         LET m == move_up(ed, buf) IN Handled(m.ok, buf, m.cur)
    [] k.k = "Down" ->
         LET m == move_down(ed, buf) IN Handled(m.ok, buf, m.cur)
    [] k.k = "Char" /\ k.ch = NL ->
         LET b == break_line_at(buf, ed)
         IN IF ~b.ok THEN Handled(FALSE, buf, ed)
            ELSE LET m == move_to_start_of_next_line(ed, b.lines)
                 IN Handled(m.ok, b.lines, m.cur)
    [] k.k = "Char" /\ k.ch # NL ->
         LET b == insert_at(buf, k.ch, ed)
         IN IF ~b.ok THEN Handled(FALSE, buf, ed)
            ELSE LET m == move_right(ed, b.lines)
                 IN Handled(m.ok, b.lines, m.cur)
    [] k.k = "Backspace" ->
         IF ed.col > 0
         THEN LET b == delete_before(buf, ed)
              IN IF ~b.ok THEN Handled(FALSE, buf, ed)
                 ELSE LET m == move_left(ed, b.lines)
                      IN Handled(m.ok, b.lines, m.cur)
         ELSE IF ed.row > 0
         THEN LET m == move_to_end_of_prev_line(ed, buf)
              IN IF ~m.ok THEN Handled(FALSE, buf, m.cur)
                 ELSE LET b == merge_next_line_up(buf, m.cur)
                      IN Handled(b.ok, b.lines, m.cur)
         ELSE Handled(TRUE, buf, ed)
    [] OTHER ->
         IF ed.col > 0
         THEN LET b == delete_before(buf, ed)
              IN IF ~b.ok THEN Handled(FALSE, buf, ed)
                 ELSE LET m == move_left(ed, b.lines)
                      IN Handled(m.ok, b.lines, m.cur)
         ELSE Handled(TRUE, buf, ed)

\* the match with a Backspace arm that leaves the editor where it was after
\* delete_before
handle_key_match_backspace_stays(buf, ed, k) ==
  CASE k.k = "Left" ->
         LET m == move_left(ed, buf) IN Handled(m.ok, buf, m.cur)
    [] k.k = "Right" ->
         LET m == move_right(ed, buf) IN Handled(m.ok, buf, m.cur)
    [] k.k = "Up" ->
         LET m == move_up(ed, buf) IN Handled(m.ok, buf, m.cur)
    [] k.k = "Down" ->
         LET m == move_down(ed, buf) IN Handled(m.ok, buf, m.cur)
    [] k.k = "Char" /\ k.ch = NL ->
         LET b == break_line_at(buf, ed)
         IN IF ~b.ok THEN Handled(FALSE, buf, ed)
            ELSE LET m == move_to_start_of_next_line(ed, b.lines)
                 IN Handled(m.ok, b.lines, m.cur)
    [] k.k = "Char" /\ k.ch # NL ->
         LET b == insert_at(buf, k.ch, ed)
         IN IF ~b.ok THEN Handled(FALSE, buf, ed)
            ELSE LET m == move_right(ed, b.lines)
                 IN Handled(m.ok, b.lines, m.cur)
    [] k.k = "Backspace" ->
         IF ed.col > 0
         THEN LET b == delete_before(buf, ed)
              IN IF ~b.ok THEN Handled(FALSE, buf, ed)
                 ELSE Handled(TRUE, b.lines, ed)
         ELSE IF ed.row > 0
         THEN LET m == move_to_end_of_prev_line(ed, buf)
              IN IF ~m.ok THEN Handled(FALSE, buf, m.cur)
                 ELSE LET b == merge_next_line_up(buf, m.cur)
                      IN Handled(b.ok, b.lines, m.cur)
         ELSE Handled(TRUE, buf, ed)
    [] OTHER -> Handled(TRUE, buf, ed)

handle_key_match(buf, ed, k) ==
  CASE k.k = "Left" ->
         LET m == move_left(ed, buf) IN Handled(m.ok, buf, m.cur)
    [] k.k = "Right" ->
         LET m == move_right(ed, buf) IN Handled(m.ok, buf, m.cur)
    [] k.k = "Up" ->
         LET m == move_up(ed, buf) IN Handled(m.ok, buf, m.cur)
    [] k.k = "Down" ->
         LET m == move_down(ed, buf) IN Handled(m.ok, buf, m.cur)
    [] k.k = "Char" /\ k.ch = NL ->
         LET b == break_line_at(buf, ed)
         IN IF ~b.ok THEN Handled(FALSE, buf, ed)
            ELSE LET m == move_to_start_of_next_line(ed, b.lines)
                 IN Handled(m.ok, b.lines, m.cur)
    [] k.k = "Char" /\ k.ch # NL ->
         LET b == insert_at(buf, k.ch, ed)
         IN IF ~b.ok THEN Handled(FALSE, buf, ed)
            ELSE LET m == move_right(ed, b.lines)
                 IN Handled(m.ok, b.lines, m.cur)
    [] k.k = "Backspace" ->
         IF ed.col > 0
         THEN LET b == delete_before(buf, ed)
              IN IF ~b.ok THEN Handled(FALSE, buf, ed)
                 ELSE LET m == move_left(ed, b.lines)
                      IN Handled(m.ok, b.lines, m.cur)
         ELSE IF ed.row > 0
         THEN LET m == move_to_end_of_prev_line(ed, buf)
              IN IF ~m.ok THEN Handled(FALSE, buf, m.cur)
                 ELSE LET b == merge_next_line_up(buf, m.cur)
                      IN Handled(b.ok, b.lines, m.cur)
         ELSE Handled(TRUE, buf, ed)
    [] OTHER -> Handled(TRUE, buf, ed)

\* handle_key: [ok, lines, editor, anchor]; a panic leaves the anchor as it was
handle_key(buf, ed, an, k, sz) ==
  LET h == handle_key_match(buf, ed, k)
  IN [ok |-> h.ok, lines |-> h.lines, editor |-> h.editor,
      anchor |-> IF h.ok THEN update_anchor(h.editor, an, sz) ELSE an]

\* line_range: the rows start..end-1; buf.height() - start underflows for
\* an anchor below the virtual row
line_range_panics(buf, an, sz) == an.row > height(buf)

line_range(buf, an, sz) ==
  [start |-> an.row, end |-> an.row + Min(height(buf) - an.row, sz.rows)]

\* char_range: buf.width(row) - start underflows for a line shorter than
\* anchor.col: a debug build panics at the subtraction, a release build wraps
\* it, takes len = size.cols and panics at get(range).unwrap()
char_range_panics(buf, an, sz, row) ==
  width_panics(buf, row) \/ width(buf, row) < an.col

char_range(buf, an, sz, row) ==
  [start |-> an.col, end |-> an.col + Min(width(buf, row) - an.col, sz.cols)]

PutAt(text, pos) == [text |-> text, pos |-> pos]

\* the loop of draw from row on, after the put_at calls acc: [ok, calls]
RECURSIVE draw_rows(_, _, _, _, _, _)
draw_rows(buf, an, sz, row, end, acc) ==
  IF row >= end THEN [ok |-> TRUE, calls |-> acc]
  ELSE IF char_range_panics(buf, an, sz, row) THEN [ok |-> FALSE, calls |-> acc]
  ELSE LET range == char_range(buf, an, sz, row)
       IN draw_rows(buf, an, sz, row + 1, end,
            Append(acc, PutAt(SubSeq(line(buf, row), range.start + 1, range.end),
                              Position(row, range.start))))

\* draw into a window whose screen takes every write: [ok, calls]
draw(buf, an, sz) ==
  IF line_range_panics(buf, an, sz) THEN [ok |-> FALSE, calls |-> <<>>]
  ELSE LET range == line_range(buf, an, sz)
       IN draw_rows(buf, an, sz, range.start, range.end, <<>>)

----------------------------------------------------------------------------
(* Screen, Window and WindowManager (src/scr.rs).  An operation that       *)
(* writes gives [ok, ret, calls]: ok = FALSE for a panic, ret what it      *)
(* returns, calls the Screen::put_at calls made so far.                    *)

\* the values of a u16
U16 == 65536

\* Position + Position: [ok, pos].  A sum past u16 panics in a build that
\* checks overflow and wraps in one that does not (rel)
Position_add(a, b, rel) ==
  LET row == a.row + b.row
      col == a.col + b.col
  IN IF (row >= U16 \/ col >= U16) /\ ~rel
     THEN [ok |-> FALSE, pos |-> a]
     ELSE [ok |-> TRUE, pos |-> Position(row % U16, col % U16)]

\* Size::contains
contains(sz, pos) == pos.row < sz.rows /\ pos.col < sz.cols

Outcome(ok, r, cs) == [ok |-> ok, ret |-> r, calls |-> cs]

\* what the I/O of the Screen does on a put_at: the size query fails, the
\* write fails, or both succeed
IOs == {"Ok", "SizeErr", "WriteErr"}

\* the I/O of the i-th Screen::put_at of an operation whose f-th fails as io
IoAt(i, f, io) == IF i = f THEN io ELSE "Ok"

\* TermionScreen::put_at on a screen of size scr, after the calls acc
Screen_put_at(scr, s, pos, io, acc) ==
  LET cs == Append(acc, PutAt(s, pos))
  IN IF io = "SizeErr" THEN Outcome(TRUE, "SizeErr", cs)
     ELSE IF ~contains(scr, pos) THEN Outcome(FALSE, "panic", cs)
     ELSE IF io = "WriteErr" THEN Outcome(TRUE, "WriteErr", cs)
     ELSE Outcome(TRUE, "Ok", cs)

\* Window::put_at
Window_put_at(w, scr, rel, s, position, io, acc) ==
  LET p == Position_add(w.position, position, rel)
  IN IF ~p.ok THEN Outcome(FALSE, "panic", acc)
     ELSE Screen_put_at(scr, s, p.pos, io, acc)

\* the loops of Window::blank from the cell (row, col) on
RECURSIVE blank_cells(_, _, _, _, _, _, _, _)
blank_cells(w, scr, rel, row, col, f, io, acc) ==
  IF row >= w.size.rows THEN Outcome(TRUE, "Ok", acc)
  ELSE IF col >= w.size.cols THEN blank_cells(w, scr, rel, row + 1, 0, f, io, acc)
  ELSE LET o == Window_put_at(w, scr, rel, <<" ">>, Position(row, col),
                              IoAt(Len(acc) + 1, f, io), acc)
       IN IF o.ret # "Ok" THEN o
          ELSE blank_cells(w, scr, rel, row, col + 1, f, io, o.calls)

\* loops of blank that go down each column before the next column
RECURSIVE blank_cells_by_column(_, _, _, _, _, _, _, _)
blank_cells_by_column(w, scr, rel, row, col, f, io, acc) ==
  IF col >= w.size.cols THEN Outcome(TRUE, "Ok", acc)
  ELSE IF row >= w.size.rows
       THEN blank_cells_by_column(w, scr, rel, 0, col + 1, f, io, acc)
  ELSE LET o == Window_put_at(w, scr, rel, <<" ">>, Position(row, col),
                              IoAt(Len(acc) + 1, f, io), acc)
       IN IF o.ret # "Ok" THEN o
          ELSE blank_cells_by_column(w, scr, rel, row + 1, col, f, io, o.calls)

\* loops of blank that go on after a put_at that returned an error
RECURSIVE blank_cells_unchecked(_, _, _, _, _, _, _, _)
blank_cells_unchecked(w, scr, rel, row, col, f, io, acc) ==
  IF row >= w.size.rows THEN Outcome(TRUE, "Ok", acc)
  ELSE IF col >= w.size.cols
       THEN blank_cells_unchecked(w, scr, rel, row + 1, 0, f, io, acc)
  ELSE LET o == Window_put_at(w, scr, rel, <<" ">>, Position(row, col),
                              IoAt(Len(acc) + 1, f, io), acc)
       IN IF ~o.ok THEN o
          ELSE blank_cells_unchecked(w, scr, rel, row, col + 1, f, io, o.calls)

\* Window::blank column by column
Window_blank_by_column(w, scr, rel, f, io) ==
  blank_cells_by_column(w, scr, rel, 0, 0, f, io, <<>>)

\* Window::blank without the ? after put_at
Window_blank_unchecked(w, scr, rel, f, io) ==
  blank_cells_unchecked(w, scr, rel, 0, 0, f, io, <<>>)

\* Window::blank
Window_blank(w, scr, rel, f, io) == blank_cells(w, scr, rel, 0, 0, f, io, <<>>)

\* Window::new
Window_new(position, sz) == [position |-> position, size |-> sz]

\* the loop of BufEditor::draw from row on, into the window w of a Screen
\* of size scr
RECURSIVE draw_into_rows(_, _, _, _, _, _, _, _, _, _)
draw_into_rows(buf, an, w, scr, rel, row, end, f, io, acc) ==
  IF row >= end THEN Outcome(TRUE, "Ok", acc)
  ELSE IF char_range_panics(buf, an, w.size, row) THEN Outcome(FALSE, "panic", acc)
  ELSE LET range == char_range(buf, an, w.size, row)
           o == Window_put_at(w, scr, rel,
                              SubSeq(line(buf, row), range.start + 1, range.end),
                              Position(row, range.start),
                              IoAt(Len(acc) + 1, f, io), acc)
       IN IF o.ret # "Ok" THEN o
          ELSE draw_into_rows(buf, an, w, scr, rel, row + 1, end, f, io, o.calls)

\* BufEditor::draw (src/ed.rs) into the window w of a Screen of size scr
draw_into(buf, an, w, scr, rel, f, io) ==
  IF line_range_panics(buf, an, w.size) THEN Outcome(FALSE, "panic", <<>>)
  ELSE LET range == line_range(buf, an, w.size)
       IN draw_into_rows(buf, an, w, scr, rel, range.start, range.end, f, io, <<>>)

----------------------------------------------------------------------------
(* The session program (src/main.rs): its Buffer is a Vec of lines, its    *)
(* Cursor holds the position (row, col) and the first visible line and     *)
(* column (top, left).  An index past the end of a Vec or String panics.   *)

Cursor(col, row, left, top) == [col |-> col, row |-> row, left |-> left, top |-> top]

Cursor_new == Cursor(0, 0, 0, 0)

align_cursor(c, sz) ==
  LET left1 == IF c.col < c.left THEN c.col ELSE c.left
      left2 == IF c.col > left1 + sz.cols - 1 THEN c.col - sz.cols + 1 ELSE left1
      top1 == IF c.row < c.top THEN c.row ELSE c.top
      top2 == IF c.row > top1 + sz.rows - 1 THEN c.row - sz.rows + 1 ELSE top1
  IN [c EXCEPT !.left = left2, !.top = top2]

truncate_cursor_to_line(c, buf) ==
  IF c.row < Len(buf)
  THEN IF c.col > Len(buf[c.row + 1]) THEN [c EXCEPT !.col = Len(buf[c.row + 1])] ELSE c
  ELSE [c EXCEPT !.col = 0]

move_cursor_left(c, buf, sz) ==
  IF c.col > 0 THEN Moved(align_cursor([c EXCEPT !.col = @ - 1], sz))
  ELSE IF c.row > 0
       THEN IF c.row - 1 >= Len(buf) THEN MovePanic([c EXCEPT !.row = @ - 1])
            ELSE Moved(align_cursor([c EXCEPT !.row = @ - 1, !.col = Len(buf[c.row])], sz))
       ELSE Moved(align_cursor(c, sz))

move_cursor_right(c, buf, sz) ==
  IF c.row < Len(buf)
  THEN IF c.col < Len(buf[c.row + 1])
       THEN Moved(align_cursor([c EXCEPT !.col = @ + 1], sz))
       ELSE Moved(align_cursor([c EXCEPT !.row = @ + 1, !.col = 0], sz))
  ELSE Moved(align_cursor(c, sz))

move_cursor_up(c, buf, sz) ==
  LET c1 == IF c.row > 0 THEN [c EXCEPT !.row = @ - 1] ELSE [c EXCEPT !.row = Len(buf)]
  IN Moved(align_cursor(truncate_cursor_to_line(c1, buf), sz))

move_cursor_down(c, buf, sz) ==
  LET c1 == IF c.row < Len(buf) THEN [c EXCEPT !.row = @ + 1] ELSE [c EXCEPT !.row = 0]
  IN Moved(align_cursor(truncate_cursor_to_line(c1, buf), sz))

move_cursor_end_of_prev_line(c, buf, sz) ==
  IF c.row = 0 THEN MovePanic(c)
  ELSE IF c.row - 1 >= Len(buf) THEN MovePanic([c EXCEPT !.row = @ - 1])
  ELSE Moved(align_cursor([c EXCEPT !.row = @ - 1, !.col = Len(buf[c.row])], sz))

move_cursor_start_of_next_line(c, buf, sz) ==
  IF c.row >= Len(buf) THEN MovePanic(c)
  ELSE Moved(align_cursor([c EXCEPT !.row = @ + 1, !.col = 0], sz))

is_whitespace(ch) == ch \in {" ", "\n", "\t"}

\* is_blank indexes the bytes of the line at col: a panic for a col past
\* the end of the line
is_blank_panics(c, buf) == c.row < Len(buf) /\ c.col > Len(buf[c.row + 1])

is_blank(c, buf) ==
  \/ c.row >= Len(buf)
  \/ Len(buf[c.row + 1]) = c.col
  \/ is_whitespace(buf[c.row + 1][c.col + 1])

is_blank_line(c, buf) ==
  IF c.row < Len(buf) /\ Len(buf[c.row + 1]) > 0
  THEN \A j \in 1..Len(buf[c.row + 1]) : is_whitespace(buf[c.row + 1][j])
  ELSE TRUE

(* the buffer mutations of main.rs: [ok, lines] *)

Mutated(buf) == [ok |-> TRUE, lines |-> buf]

MutatePanic(buf) == [ok |-> FALSE, lines |-> buf]

main_insert_at(ch, c, buf) ==
  IF c.row > Len(buf) THEN MutatePanic(buf)
  ELSE IF c.row >= Len(buf) THEN MutatePanic(buf)
  ELSE IF c.col > Len(buf[c.row + 1]) THEN MutatePanic(buf)
  ELSE Mutated([buf EXCEPT ![c.row + 1] = InsertAt(@, c.col, ch)])

main_delete_before(c, buf) ==
  IF c.col = 0 THEN MutatePanic(buf)
  ELSE IF c.row >= Len(buf) THEN MutatePanic(buf)
  ELSE IF c.col - 1 >= Len(buf[c.row + 1]) THEN MutatePanic(buf)
  ELSE Mutated([buf EXCEPT ![c.row + 1] = RemoveAt(@, c.col - 1)])

delete_at(c, buf) ==
  IF c.row >= Len(buf) THEN MutatePanic(buf)
  ELSE IF c.col >= Len(buf[c.row + 1]) THEN MutatePanic(buf)
  ELSE Mutated([buf EXCEPT ![c.row + 1] = RemoveAt(@, c.col)])

merge_next_line_into(c, buf) ==
  IF c.row + 1 >= Len(buf) THEN MutatePanic(buf)
  ELSE LET l == buf[c.row + 2]
           b1 == RemoveAt(buf, c.row + 1)
       IN Mutated([b1 EXCEPT ![c.row + 1] = @ \o l])

main_break_line_at(c, buf) ==
  IF c.row >= Len(buf) THEN MutatePanic(buf)
  ELSE IF c.col > Len(buf[c.row + 1]) THEN MutatePanic(buf)
  ELSE LET l == buf[c.row + 1]
           new_line == SubSeq(l, c.col + 1, Len(l))
           b1 == [buf EXCEPT ![c.row + 1] = SubSeq(l, 1, c.col)]
       IN Mutated(InsertAt(b1, c.row + 1, new_line))

push_new_line_if_at_end(c, buf) ==
  IF c.row = Len(buf) THEN Append(buf, <<>>) ELSE buf

(* the editing functions of main.rs: [ok, cur, lines, clip] *)

Edited(ok, c, buf, cl) == [ok |-> ok, cur |-> c, lines |-> buf, clip |-> cl]

break_line_and_return_cursor(c, buf, cl, sz) ==
  LET b == main_break_line_at(c, buf)
      m == move_cursor_start_of_next_line(c, b.lines, sz)
  IN IF ~b.ok THEN Edited(FALSE, c, buf, cl) ELSE Edited(m.ok, m.cur, b.lines, cl)

insert_and_move_cursor(ch, c, buf, cl, sz) ==
  LET b == main_insert_at(ch, c, push_new_line_if_at_end(c, buf))
      m == move_cursor_right(c, b.lines, sz)
  IN IF ~b.ok THEN Edited(FALSE, c, buf, cl) ELSE Edited(m.ok, m.cur, b.lines, cl)

delete_in_place(c, buf, cl, sz) ==
  IF c.row < Len(buf) /\ c.col < Len(buf[c.row + 1])
  THEN LET b == delete_at(c, buf) IN Edited(b.ok, c, b.lines, cl)
  ELSE IF c.row + 1 < Len(buf) /\ c.col = Len(buf[c.row + 1])
       THEN LET b == merge_next_line_into(c, buf) IN Edited(b.ok, c, b.lines, cl)
       ELSE Edited(TRUE, c, buf, cl)

delete_and_move_cursor(c, buf, cl, sz) ==
  IF c.col > 0
  THEN LET b == main_delete_before(c, buf)
           m == move_cursor_left(c, b.lines, sz)
       IN IF ~b.ok THEN Edited(FALSE, c, buf, cl) ELSE Edited(m.ok, m.cur, b.lines, cl)
  ELSE IF c.row > 0
       THEN LET m == move_cursor_end_of_prev_line(c, buf, sz)
            IN IF ~m.ok THEN Edited(FALSE, m.cur, buf, cl)
               ELSE IF m.cur.row + 1 < Len(buf)
                    THEN LET b == merge_next_line_into(m.cur, buf)
                         IN Edited(b.ok, m.cur, b.lines, cl)
                    ELSE Edited(TRUE, m.cur, buf, cl)
       ELSE Edited(TRUE, c, buf, cl)

\* Vec::remove panics for an index that is not of the Vec
delete_line(c, src, cl, sz) ==
  IF c.row >= Len(src) THEN Edited(FALSE, c, src, cl)
  ELSE LET src1 == RemoveAt(src, c.row)
       IN Edited(TRUE, align_cursor(truncate_cursor_to_line(c, src1), sz), src1, cl)

cut_line(c, src, dst, sz) ==
  IF c.row >= Len(src) THEN Edited(FALSE, c, src, dst)
  ELSE LET src1 == RemoveAt(src, c.row)
       IN Edited(TRUE, align_cursor(truncate_cursor_to_line(c, src1), sz), src1,
                 Append(dst, src[c.row + 1]))

copy_line(c, src, dst, sz) ==
  LET dst1 == IF c.row < Len(src) THEN Append(dst, src[c.row + 1]) ELSE dst
      m == move_cursor_down(c, src, sz)
  IN Edited(m.ok, m.cur, src, dst1)

\* src is the clip, dst the buffer; Vec::insert panics for an index past
\* the length
paste_line(c, src, dst, sz) ==
  IF src = <<>>
  THEN Edited(TRUE, align_cursor(truncate_cursor_to_line(c, dst), sz), dst, src)
  ELSE IF c.row > Len(dst) THEN Edited(FALSE, c, dst, SubSeq(src, 1, Len(src) - 1))
  ELSE LET dst1 == InsertAt(dst, c.row, src[Len(src)])
       IN Edited(TRUE, align_cursor(truncate_cursor_to_line(c, dst1), sz), dst1,
                 SubSeq(src, 1, Len(src) - 1))

(* The two key handlers: what an Edited holds, the Mode returned (or the   *)
(* Err of write_file in ret), and in loop the cursor search the key has    *)
(* started: a key of H, L, K, J makes the first move of its function here  *)
(* and leaves the while loop of the function to be run step by step.       *)

KeyHandled(e, md, r, lp) ==
  [ok |-> e.ok, cur |-> e.cur, lines |-> e.lines, clip |-> e.clip,
   mode |-> md, ret |-> r, loop |-> lp]

handle_key_insert_mode(k, c, buf, cl, sz) ==
  IF k.k = "Char" /\ k.ch = NL
  THEN KeyHandled(break_line_and_return_cursor(c, buf, cl, sz), "Insert", "Ok", "")
  ELSE IF k.k = "Char"
  THEN KeyHandled(insert_and_move_cursor(k.ch, c, buf, cl, sz), "Insert", "Ok", "")
  ELSE IF k.k = "Delete"
  THEN KeyHandled(delete_in_place(c, buf, cl, sz), "Insert", "Ok", "")
  ELSE IF k.k = "Backspace"
  THEN KeyHandled(delete_and_move_cursor(c, buf, cl, sz), "Insert", "Ok", "")
  ELSE IF k.k = "Esc"
  THEN KeyHandled(Edited(TRUE, c, buf, cl), "Normal", "Ok", "")
  ELSE KeyHandled(Edited(TRUE, c, buf, cl), "Insert", "Ok", "")

handle_key_normal_mode(k, c, buf, cl, sz, io) ==
  LET same == Edited(TRUE, c, buf, cl)
      moved(m) == Edited(m.ok, m.cur, buf, cl)
  IN IF k.k # "Char" THEN KeyHandled(same, "Normal", "Ok", "")
     ELSE CASE k.ch = "i" -> KeyHandled(same, "Insert", "Ok", "")
            [] k.ch = "h" -> KeyHandled(moved(move_cursor_left(c, buf, sz)), "Normal", "Ok", "")
            [] k.ch = "l" -> KeyHandled(moved(move_cursor_right(c, buf, sz)), "Normal", "Ok", "")
            [] k.ch = "k" -> KeyHandled(moved(move_cursor_up(c, buf, sz)), "Normal", "Ok", "")
            [] k.ch = "j" -> KeyHandled(moved(move_cursor_down(c, buf, sz)), "Normal", "Ok", "")
            [] k.ch = "H" -> KeyHandled(moved(move_cursor_left(c, buf, sz)), "Normal", "Ok",
                                     "move_cursor_to_prev_blank")
            [] k.ch = "L" -> KeyHandled(moved(move_cursor_right(c, buf, sz)), "Normal", "Ok",
                                     "move_cursor_to_next_blank")
            [] k.ch = "K" -> KeyHandled(moved(move_cursor_up(c, buf, sz)), "Normal", "Ok",
                                     "move_cursor_to_prev_blank_line")
            [] k.ch = "J" -> KeyHandled(moved(move_cursor_down(c, buf, sz)), "Normal", "Ok",
                                     "move_cursor_to_next_blank_line")
            [] k.ch = "d" -> KeyHandled(delete_line(c, buf, cl, sz), "Normal", "Ok", "")
            [] k.ch = "c" -> KeyHandled(copy_line(c, buf, cl, sz), "Normal", "Ok", "")
            [] k.ch = "v" -> KeyHandled(paste_line(c, cl, buf, sz), "Normal", "Ok", "")
            [] k.ch = "x" -> KeyHandled(cut_line(c, buf, cl, sz), "Normal", "Ok", "")
            [] k.ch = "s" -> IF io = "WriteErr" THEN KeyHandled(same, "Normal", "WriteErr", "")
                             ELSE KeyHandled(same, "Normal", "Ok", "")
            [] k.ch = "q" -> KeyHandled(same, "Quit", "Ok", "")
            [] OTHER -> KeyHandled(same, "Normal", "Ok", "")

\* the test of the while loop of the cursor search f: TRUE ends the loop
loop_done(f, c, buf) ==
  IF f \in {"move_cursor_to_prev_blank", "move_cursor_to_next_blank"}
  THEN is_blank(c, buf)
  ELSE is_blank_line(c, buf)

loop_test_panics(f, c, buf) ==
  f \in {"move_cursor_to_prev_blank", "move_cursor_to_next_blank"} /\ is_blank_panics(c, buf)

\* the body of the while loop of the cursor search f
loop_body(f, c, buf, sz) ==
  CASE f = "move_cursor_to_prev_blank" -> move_cursor_left(c, buf, sz)
    [] f = "move_cursor_to_next_blank" -> move_cursor_right(c, buf, sz)
    [] f = "move_cursor_to_prev_blank_line" -> move_cursor_up(c, buf, sz)
    [] f = "move_cursor_to_next_blank_line" -> move_cursor_down(c, buf, sz)

----------------------------------------------------------------------------
(* What the variables of the Screen, of its WindowManager and of           *)
(* edit_buffer hold in a specification that has neither                    *)

\* Option: None, and Some(x)
None == <<>>

Some(x) == <<x>>

\* the arguments of a Window operation: put_at's text and position, and what
\* the Screen's I/O does: its f-th put_at of the operation (none for f = 0)
\* fails as io
Args(text, position, f, io) ==
  [text |-> text, position |-> position, f |-> f, io |-> io]

NoArgs == Args(<<>>, Position(0, 0), 0, "Ok")

\* a WindowManager::new(&mut scr) with no window created or resolved
NoScreen ==
  /\ windows = <<>>
  /\ win = None
  /\ wid = 0
  /\ screen = Size(0, 0)
  /\ args = NoArgs
  /\ ret = "none"
  /\ release = FALSE

\* edit_buffer not entered
NoSession ==
  /\ mode = "Normal"
  /\ pc = "none"
  /\ events = 0
  /\ clip = <<>>

----------------------------------------------------------------------------------------------------------------------------------------
(* The editing session: the caller hands handle_key and draw the window    *)
(* `size` describes, and may hand a window of another size at any time     *)

NoKey == Key("None", "")

Init ==
  /\ lines \in Buffers
  /\ editor = BufCursor_new
  /\ anchor = BufCursor_new
  /\ size \in Sizes
  /\ key = NoKey
  /\ op = "new"
  /\ calls = <<>>
  /\ panicked = FALSE
  /\ cur = BufCursor_new
  /\ before = <<>>
  /\ start = BufCursor_new
  /\ NoScreen
  /\ NoSession

\* the keys that keep the buffer within the bounds of the model
WithinBounds(k) ==
  /\ (k.k = "Char" /\ k.ch = NL) => height(lines) < MaxHeight
  /\ (k.k = "Char" /\ k.ch # NL) =>
       /\ TotalChars(lines) < MaxChars
       /\ editor.row = height(lines) => height(lines) < MaxHeight

\* ed.handle_key(&mut buf, &win, k)
HandleKey(k) ==
  /\ ~panicked
  /\ WithinBounds(k)
  /\ LET h == handle_key(lines, editor, anchor, k, size)
     IN /\ lines' = h.lines
        /\ editor' = h.editor
        /\ anchor' = h.anchor
        /\ panicked' = ~h.ok
  /\ key' = k
  /\ op' = "handle_key"
  /\ calls' = <<>>
  /\ UNCHANGED <<size, cur, before, start, scrvars, sessvars>>

\* ed.draw(&buf, &mut win)
Draw ==
  /\ ~panicked
  /\ LET d == draw(lines, anchor, size)
     IN /\ calls' = d.calls
        /\ panicked' = ~d.ok
  /\ key' = NoKey
  /\ op' = "draw"
  /\ UNCHANGED <<lines, editor, anchor, size, cur, before, start, scrvars, sessvars>>

\* the next call gets a window of another size
Resize(sz) ==
  /\ ~panicked
  /\ sz # size
  /\ size' = sz
  /\ key' = NoKey
  /\ op' = "resize"
  /\ calls' = <<>>
  /\ UNCHANGED <<lines, editor, anchor, panicked, cur, before, start, scrvars, sessvars>>

Next ==
  \/ \E k \in Keys : HandleKey(k)
  \/ Draw
  \/ \E sz \in Sizes : Resize(sz)

Spec == Init /\ [][Next]_vars

TypeOK ==
  /\ lines \in Seq(Seq(Chars \cup {NL}))
  /\ editor \in [row : Nat, col : Nat]
  /\ anchor \in [row : Nat, col : Nat]
  /\ size \in Sizes
  /\ key \in Keys \cup {NoKey}
  /\ panicked \in BOOLEAN

----------------------------------------------------------------------------
(* The BufCursor methods on their own: any buffer, any valid cursor, the   *)
(* methods called in any order                                             *)

ValidCursors(buf) ==
  {BufCursor_at(r, c) : r \in 0..height(buf), c \in 0..MaxChars}
    \cap {c \in [row : 0..height(buf), col : 0..MaxChars] : c.col <= width(buf, c.row)}

CursorInit ==
  /\ lines \in Buffers
  /\ cur \in ValidCursors(lines)
  /\ op = "new"
  /\ panicked = FALSE
  /\ editor = BufCursor_new
  /\ anchor = BufCursor_new
  /\ size = Size(1, 1)
  /\ key = NoKey
  /\ calls = <<>>
  /\ before = <<>>
  /\ start = BufCursor_new
  /\ NoScreen
  /\ NoSession

\* cur.<method>(&buf), m its result
CursorCall(method, m) ==
  /\ ~panicked
  /\ cur' = m.cur
  /\ panicked' = ~m.ok
  /\ op' = method
  /\ UNCHANGED <<lines, editor, anchor, size, key, calls, before, start, scrvars, sessvars>>

MoveRight == CursorCall("move_right", move_right(cur, lines))

MoveLeft == CursorCall("move_left", move_left(cur, lines))

MoveUp == CursorCall("move_up", move_up(cur, lines))

MoveDown == CursorCall("move_down", move_down(cur, lines))

MoveToStartOfLine ==
  CursorCall("move_to_start_of_line", move_to_start_of_line(cur, lines))

MoveToEndOfLine ==
  CursorCall("move_to_end_of_line", move_to_end_of_line(cur, lines))

MoveToEndOfPrevLine ==
  CursorCall("move_to_end_of_prev_line", move_to_end_of_prev_line(cur, lines))

MoveToStartOfNextLine ==
  CursorCall("move_to_start_of_next_line", move_to_start_of_next_line(cur, lines))

CursorNext ==
  \/ MoveRight
  \/ MoveLeft
  \/ MoveUp
  \/ MoveDown
  \/ MoveToStartOfLine
  \/ MoveToEndOfLine
  \/ MoveToEndOfPrevLine
  \/ MoveToStartOfNextLine

CursorSpec == CursorInit /\ [][CursorNext]_vars

----------------------------------------------------------------------------------------------------------------------------------------
(* The Buffer methods on their own: any buffer, the mutators called in any *)
(* order with any character and any cursor, valid or not                   *)

\* the characters handed to insert_at
InsertChars == Chars \cup {NL}

\* the cursors handed to the Buffer methods: up to one row below the
\* virtual row and one column past the end of the line
ArgCursors(buf) ==
  {c \in [row : 0..(height(buf) + 1), col : 0..(MaxChars + 1)] :
     c.col <= width(buf, c.row) + 1}

BufferInit ==
  /\ lines \in Buffers
  /\ cur = BufCursor_new
  /\ key = NoKey
  /\ op = "new"
  /\ panicked = FALSE
  /\ editor = BufCursor_new
  /\ anchor = BufCursor_new
  /\ size = Size(1, 1)
  /\ calls = <<>>
  /\ before = <<>>
  /\ start = BufCursor_new
  /\ NoScreen
  /\ NoSession

\* buf.<method>(.., &c), res its result; a panic leaves the buffer as the
\* method left it
BufferCall(method, c, k, res) ==
  /\ ~panicked
  /\ lines' = res.lines
  /\ panicked' = ~res.ok
  /\ cur' = c
  /\ key' = k
  /\ op' = method
  /\ UNCHANGED <<editor, anchor, size, calls, before, start, scrvars, sessvars>>

BufInsertAt(ch, c) ==
  LET res == insert_at(lines, ch, c)
  IN /\ res.ok =>
          /\ TotalChars(lines) < MaxChars
          /\ c.row = height(lines) => height(lines) < MaxHeight
     /\ BufferCall("insert_at", c, Key("Char", ch), res)

BufDeleteBefore(c) ==
  BufferCall("delete_before", c, NoKey, delete_before(lines, c))

BufMergeNextLineUp(c) ==
  BufferCall("merge_next_line_up", c, NoKey, merge_next_line_up(lines, c))

BufBreakLineAt(c) ==
  LET res == break_line_at(lines, c)
  IN /\ res.ok => height(lines) < MaxHeight
     /\ BufferCall("break_line_at", c, NoKey, res)

BufferNext ==
  \/ \E ch \in InsertChars, c \in ArgCursors(lines) : BufInsertAt(ch, c)
  \/ \E c \in ArgCursors(lines) : BufDeleteBefore(c)
  \/ \E c \in ArgCursors(lines) : BufMergeNextLineUp(c)
  \/ \E c \in ArgCursors(lines) : BufBreakLineAt(c)

BufferSpec == BufferInit /\ [][BufferNext]_vars

----------------------------------------------------------------------------
(* Two Buffer methods in a row, the second undoing the first: insert_at    *)
(* then delete_before one column on, break_line_at then merge_next_line_up *)
(* on the same row                                                         *)

RoundTripInit ==
  /\ lines \in Buffers
  /\ before = lines
  /\ cur \in ArgCursors(lines)
  /\ key = NoKey
  /\ op = "new"
  /\ panicked = FALSE
  /\ editor = BufCursor_new
  /\ anchor = BufCursor_new
  /\ size = Size(1, 1)
  /\ calls = <<>>
  /\ start = BufCursor_new
  /\ NoScreen
  /\ NoSession

RoundTripCall(method, c, k, res) ==
  /\ ~panicked
  /\ lines' = res.lines
  /\ panicked' = ~res.ok
  /\ cur' = c
  /\ key' = k
  /\ op' = method
  /\ UNCHANGED <<editor, anchor, size, calls, before, start, scrvars, sessvars>>

FirstInsertAt(ch) ==
  /\ op = "new"
  /\ RoundTripCall("insert_at", cur, Key("Char", ch), insert_at(lines, ch, cur))

ThenDeleteBefore ==
  /\ op = "insert_at"
  /\ LET c == BufCursor_at(cur.row, cur.col + 1)
     IN RoundTripCall("delete_before", c, key, delete_before(lines, c))

FirstBreakLineAt ==
  /\ op = "new"
  /\ RoundTripCall("break_line_at", cur, NoKey, break_line_at(lines, cur))

ThenMergeNextLineUp(col) ==
  /\ op = "break_line_at"
  /\ LET c == BufCursor_at(cur.row, col)
     IN RoundTripCall("merge_next_line_up", c, NoKey, merge_next_line_up(lines, c))

RoundTripNext ==
  \/ \E ch \in InsertChars : FirstInsertAt(ch)
  \/ ThenDeleteBefore
  \/ FirstBreakLineAt
  \/ \E col \in 0..(MaxChars + 1) : ThenMergeNextLineUp(col)

RoundTripSpec == RoundTripInit /\ [][RoundTripNext]_vars

----------------------------------------------------------------------------
(* One BufCursor method, or two in a row, from a valid cursor kept in      *)
(* `start`                                                                 *)

MovePairInit ==
  /\ lines \in Buffers
  /\ cur \in ValidCursors(lines)
  /\ start = cur
  /\ op = "new"
  /\ panicked = FALSE
  /\ editor = BufCursor_new
  /\ anchor = BufCursor_new
  /\ size = Size(1, 1)
  /\ key = NoKey
  /\ calls = <<>>
  /\ before = <<>>
  /\ NoScreen
  /\ NoSession

\* cur.<method>(&buf) as the first call (after = "new") or after the call
\* `after`; m is its result
MovePairCall(after, name, m) ==
  /\ op = after
  /\ CursorCall(name, m)

FirstMoveRight == MovePairCall("new", "move_right", move_right(cur, lines))

ThenMoveLeft ==
  MovePairCall("move_right", "move_right;move_left", move_left(cur, lines))

FirstMoveLeft == MovePairCall("new", "move_left", move_left(cur, lines))

ThenMoveRight ==
  MovePairCall("move_left", "move_left;move_right", move_right(cur, lines))

FirstMoveToEndOfPrevLine ==
  MovePairCall("new", "move_to_end_of_prev_line",
               move_to_end_of_prev_line(cur, lines))

MovePairNext ==
  \/ FirstMoveRight
  \/ ThenMoveLeft
  \/ FirstMoveLeft
  \/ ThenMoveRight
  \/ FirstMoveToEndOfPrevLine

MovePairSpec == MovePairInit /\ [][MovePairNext]_vars

----------------------------------------------------------------------------
(* Two keys in a row, the second a Backspace: from a buffer kept in        *)
(* `before` and an editor kept in `start`, any valid cursor, as the arrows *)
(* leave it in a window of one cell                                        *)

KeyPairInit ==
  /\ lines \in Buffers
  /\ before = lines
  /\ editor \in ValidCursors(lines)
  /\ start = editor
  /\ anchor = editor
  /\ size \in Sizes
  /\ key = NoKey
  /\ op = "new"
  /\ calls = <<>>
  /\ panicked = FALSE
  /\ cur = BufCursor_new
  /\ NoScreen
  /\ NoSession

\* ed.handle_key(&mut buf, &win, k) as the first call (after = "new") or
\* after the call `after`
KeyPairCall(after, name, k) ==
  /\ op = after
  /\ ~panicked
  /\ WithinBounds(k)
  /\ LET h == handle_key(lines, editor, anchor, k, size)
     IN /\ lines' = h.lines
        /\ editor' = h.editor
        /\ anchor' = h.anchor
        /\ panicked' = ~h.ok
  /\ key' = k
  /\ op' = name
  /\ UNCHANGED <<size, calls, cur, before, start, scrvars, sessvars>>

FirstChar(ch) == KeyPairCall("new", "Char", Key("Char", ch))

ThenBackspaceAfterChar ==
  KeyPairCall("Char", "Char;Backspace", Key("Backspace", ""))

FirstNewline == KeyPairCall("new", "newline", Key("Char", NL))

ThenBackspaceAfterNewline ==
  KeyPairCall("newline", "newline;Backspace", Key("Backspace", ""))

KeyPairNext ==
  \/ \E ch \in Chars : FirstChar(ch)
  \/ ThenBackspaceAfterChar
  \/ FirstNewline
  \/ ThenBackspaceAfterNewline

KeyPairSpec == KeyPairInit /\ [][KeyPairNext]_vars

----------------------------------------------------------------------------
(* A WindowManager over a Screen: windows are created, resolved, written   *)
(* through and dropped in any order the borrow rules admit, the Screen     *)
(* changes its size at any time                                            *)

\* the positions windows are created at; the last one is the largest a
\* Position holds
Origins == {Position(0, 0), Position(2, 4), Position(U16 - 1, U16 - 1)}

\* the sizes windows are created with
WinSizes == {Size(0, 2), Size(2, 2)}

\* the window-local positions written at
Locals == {Position(0, 0), Position(1, 1), Position(2, 3)}

\* the sizes of the Screen
ScreenSizes == {Size(0, 0), Size(2, 2), Size(5, 8)}

\* the texts written
Texts == {<<"a", "b">>}

WindowInit ==
  /\ windows = <<>>
  /\ win = <<>>
  /\ wid = 0
  /\ screen \in ScreenSizes
  /\ args = NoArgs
  /\ ret = "none"
  /\ release \in BOOLEAN
  /\ calls = <<>>
  /\ op = "new"
  /\ panicked = FALSE
  /\ lines = <<>>
  /\ editor = BufCursor_new
  /\ anchor = BufCursor_new
  /\ size = Size(1, 1)
  /\ key = NoKey
  /\ cur = BufCursor_new
  /\ before = <<>>
  /\ start = BufCursor_new
  /\ NoSession

\* what a WindowManager operation leaves alone
WindowFrame ==
  UNCHANGED <<lines, editor, anchor, size, key, cur, before, start, release, sessvars>>

\* WindowManager::create; it takes &mut self, which no caller has while a
\* Window resolved from the manager is alive
WindowManager_create(position, sz) ==
  /\ win = <<>>
  /\ Len(windows) < MaxWindows
  /\ windows' = Append(windows, Window_new(position, sz))
  /\ wid' = Len(windows)

\* wm.create(position, sz)
Create(position, sz) ==
  /\ ~panicked
  /\ WindowManager_create(position, sz)
  /\ op' = "create"
  /\ ret' = "Ok"
  /\ args' = NoArgs
  /\ calls' = <<>>
  /\ UNCHANGED <<win, screen, panicked>>
  /\ WindowFrame

\* wm.create_full(): the size query of the Screen succeeds or fails (io)
CreateFull(io) ==
  /\ ~panicked
  /\ win = <<>>
  /\ IF io = "Ok"
     THEN WindowManager_create(Position(0, 0), screen)
     ELSE UNCHANGED <<windows, wid>>
  /\ op' = "create_full"
  /\ ret' = io
  /\ args' = Args(<<>>, Position(0, 0), 0, io)
  /\ calls' = <<>>
  /\ UNCHANGED <<win, screen, panicked>>
  /\ WindowFrame

\* wm.borrow_mut(window) with no regard to the Windows alive
BorrowMutShared(window) ==
  /\ ~panicked
  /\ Len(win) < MaxWindows
  /\ IF window < Len(windows)
     THEN /\ win' = Append(win, windows[window + 1])
          /\ ret' = "Some"
     ELSE /\ win' = win
          /\ ret' = "None"
  /\ wid' = window
  /\ op' = "borrow_mut"
  /\ args' = NoArgs
  /\ calls' = <<>>
  /\ UNCHANGED <<windows, screen, panicked>>
  /\ WindowFrame

\* wm.borrow_mut(window): the Window<'b> it returns borrows the manager
\* mutably for 'b, so no Window is alive at the call
BorrowMut(window) ==
  /\ ~panicked
  /\ win = <<>>
  /\ IF window < Len(windows)
     THEN /\ win' = Append(win, windows[window + 1])
          /\ ret' = "Some"
     ELSE /\ win' = win
          /\ ret' = "None"
  /\ wid' = window
  /\ op' = "borrow_mut"
  /\ args' = NoArgs
  /\ calls' = <<>>
  /\ UNCHANGED <<windows, screen, panicked>>
  /\ WindowFrame

\* the scope of the resolved Window ends
Drop ==
  /\ ~panicked
  /\ win # <<>>
  /\ win' = SubSeq(win, 1, Len(win) - 1)
  /\ op' = "drop"
  /\ ret' = "Ok"
  /\ args' = NoArgs
  /\ calls' = <<>>
  /\ UNCHANGED <<windows, wid, screen, panicked>>
  /\ WindowFrame

\* an operation of the Window alive, o its outcome
WindowCall(name, a, o) ==
  /\ ~panicked
  /\ op' = name
  /\ args' = a
  /\ calls' = o.calls
  /\ ret' = o.ret
  /\ panicked' = ~o.ok
  /\ UNCHANGED <<windows, win, wid, screen>>
  /\ WindowFrame

\* win.put_at(s, position)
WinPutAt(s, position, io) ==
  /\ win # <<>>
  /\ WindowCall("put_at", Args(s, position, 1, io),
                Window_put_at(win[Len(win)], screen, release, s, position, io, <<>>))

\* win.blank()
WinBlank(f, io) ==
  /\ win # <<>>
  /\ WindowCall("blank", Args(<<>>, Position(0, 0), f, io),
                Window_blank(win[Len(win)], screen, release, f, io))

\* the terminal gets another size
ResizeScreen(sz) ==
  /\ ~panicked
  /\ sz # screen
  /\ screen' = sz
  /\ op' = "resize"
  /\ ret' = "Ok"
  /\ args' = NoArgs
  /\ calls' = <<>>
  /\ UNCHANGED <<windows, win, wid, panicked>>
  /\ WindowFrame

\* the number of the Screen::put_at that fails: none, or one of the cells
\* of the largest window
Failing == 0..4

WindowNext ==
  \/ \E position \in Origins, sz \in WinSizes : Create(position, sz)
  \/ \E io \in {"Ok", "SizeErr"} : CreateFull(io)
  \/ \E window \in 0..MaxWindows : BorrowMut(window)
  \/ Drop
  \/ \E s \in Texts, position \in Locals, io \in IOs : WinPutAt(s, position, io)
  \/ \E f \in Failing, io \in IOs \ {"Ok"} : WinBlank(f, io)
  \/ \E sz \in ScreenSizes : ResizeScreen(sz)

WindowSpec == WindowInit /\ [][WindowNext]_vars

----------------------------------------------------------------------------
(* Rendering: a buffer, an editor and a resolved Window of a Screen whose  *)
(* I/O may fail; the window is blanked and drawn into, in any order        *)

\* the positions of the window drawn into
DrawOrigins == {Position(0, 0), Position(2, 4)}

\* the sizes of the Screen drawn on
DrawScreens == {Size(2, 2), Size(5, 8)}

DrawInit ==
  /\ lines \in Buffers
  /\ editor \in ValidCursors(lines)
  /\ anchor = editor
  /\ size \in Sizes
  /\ \E position \in DrawOrigins : windows = << Window_new(position, size) >>
  /\ win = windows
  /\ wid = 0
  /\ screen \in DrawScreens
  /\ args = NoArgs
  /\ ret = "none"
  /\ release = FALSE
  /\ calls = <<>>
  /\ op = "new"
  /\ panicked = FALSE
  /\ key = NoKey
  /\ cur = BufCursor_new
  /\ before = <<>>
  /\ start = BufCursor_new
  /\ NoSession

\* ed.draw(&buf, &mut win)
DrawInto(f, io) ==
  WindowCall("draw", Args(<<>>, Position(0, 0), f, io),
             draw_into(lines, anchor, win[Len(win)], screen, release, f, io))

\* one operation from each starting state: neither draw nor blank changes
\* what a later draw or blank reads
DrawOnce(f, io) ==
  /\ op = "new"
  /\ DrawInto(f, io)

BlankOnce(f, io) ==
  /\ op = "new"
  /\ WinBlank(f, io)

DrawNext ==
  \/ \E f \in Failing, io \in IOs \ {"Ok"} : DrawOnce(f, io)
  \/ \E f \in Failing, io \in IOs \ {"Ok"} : BlankOnce(f, io)

DrawSpec == DrawInit /\ [][DrawNext]_vars

----------------------------------------------------------------------------
(* The cursor functions of main.rs called one after another on a buffer,   *)
(* from the cursor of a new session, as test_cursor does; start holds the  *)
(* cursor before the last call.                                            *)

MainCursorInit ==
  /\ lines \in Buffers
  /\ size \in Sizes
  /\ cur = Cursor_new
  /\ start = Cursor_new
  /\ op = "new"
  /\ panicked = FALSE
  /\ editor = BufCursor_new
  /\ anchor = BufCursor_new
  /\ key = NoKey
  /\ calls = <<>>
  /\ before = <<>>
  /\ NoScreen
  /\ NoSession

\* <function>(&mut cur, &buf, &size), m its result
MainCursorCall(function, m) ==
  /\ ~panicked
  /\ start' = cur
  /\ cur' = m.cur
  /\ panicked' = ~m.ok
  /\ op' = function
  /\ UNCHANGED <<lines, editor, anchor, size, key, calls, before, scrvars, sessvars>>

MoveCursorLeft == MainCursorCall("move_cursor_left", move_cursor_left(cur, lines, size))

MoveCursorRight == MainCursorCall("move_cursor_right", move_cursor_right(cur, lines, size))

MoveCursorUp == MainCursorCall("move_cursor_up", move_cursor_up(cur, lines, size))

MoveCursorDown == MainCursorCall("move_cursor_down", move_cursor_down(cur, lines, size))

MainCursorNext == MoveCursorLeft \/ MoveCursorRight \/ MoveCursorUp \/ MoveCursorDown

MainCursorSpec == MainCursorInit /\ [][MainCursorNext]_vars

----------------------------------------------------------------------------
(* The session of main.rs: edit_buffer reads the keys of a finite sequence *)
(* and passes each to the handler of the current mode.  One pass of the    *)
(* for loop is one step, but for the cursor searches of H, L, K and J,     *)
(* whose while loops run one test and one body at a time: pc tells where   *)
(* the session is, start (before the loop), read (at the blocking read of  *)
(* the next key), while and body (in the loop of the search named by op),  *)
(* done (edit_buffer has returned ret, or the process has panicked).       *)
(* An I/O call that can fail does so when io names it.                     *)

SessionChars == {"a", " ", NL}

SessionKeys ==
  {Key("Char", ch) : ch \in {"i", "h", "l", "k", "j", "H", "L", "K", "J", "d", "c", "v",
                             "x", "s", "q"} \cup SessionChars}
  \cup {Key(k, "") : k \in {"Delete", "Backspace", "Esc", "Left"}}

\* main: the buffer read from the file, after init_buffer_if_empty
SessionInit ==
  /\ lines \in {b \in Buffers : b # <<>>}
  /\ cur = Cursor_new
  /\ clip = <<>>
  /\ mode = "Normal"
  /\ size = Size(MaxRows, MaxCols)
  /\ pc = "start"
  /\ events = MaxEvents
  /\ key = NoKey
  /\ op = "new"
  /\ ret = "none"
  /\ panicked = FALSE
  /\ editor = BufCursor_new
  /\ anchor = BufCursor_new
  /\ calls = <<>>
  /\ before = <<>>
  /\ start = BufCursor_new
  /\ windows = <<>>
  /\ win = None
  /\ wid = 0
  /\ screen = Size(0, 0)
  /\ args = NoArgs
  /\ release = FALSE

SessionFrame ==
  UNCHANGED <<editor, anchor, size, calls, before, start, windows, win, wid, screen, args,
              release>>

\* edit_buffer up to the for loop: init_screen, get_screen_size, update_screen
EditBufferStart(io) ==
  /\ pc = "start"
  /\ pc' = IF io = "Ok" THEN "read" ELSE "done"
  /\ ret' = IF io = "Ok" THEN ret ELSE io
  /\ op' = "edit_buffer"
  /\ UNCHANGED <<lines, cur, clip, mode, events, key, panicked>>
  /\ SessionFrame

\* the buffer and the clip stay within the bounds
SessionWithin(h) ==
  /\ Len(h.lines) <= MaxHeight
  /\ TotalChars(h.lines) <= MaxChars
  /\ Len(h.clip) <= MaxClip

\* one pass of the for loop with the key k: res?, get_screen_size()?, the
\* handler of the mode, break on Quit, update_screen()?
KeyEvent(k, io) ==
  /\ pc = "read"
  /\ events > 0
  /\ mode = "Insert" /\ k.k = "Char" => k.ch \in SessionChars
  /\ io = "WriteErr" => mode = "Normal" /\ k = Key("Char", "s")
  /\ events' = events - 1
  /\ IF io \in {"KeyErr", "SizeErr"}
     THEN /\ pc' = "done"
          /\ ret' = io
          /\ op' = "edit_buffer"
          /\ UNCHANGED <<lines, cur, clip, mode, key, panicked>>
     ELSE LET h == IF mode = "Insert"
                   THEN handle_key_insert_mode(k, cur, lines, clip, size)
                   ELSE handle_key_normal_mode(k, cur, lines, clip, size, io)
          IN /\ SessionWithin(h)
             /\ key' = k
             /\ lines' = h.lines
             /\ cur' = h.cur
             /\ clip' = h.clip
             /\ panicked' = ~h.ok
             /\ mode' = IF h.ok /\ h.ret = "Ok" THEN h.mode ELSE mode
             /\ op' = IF h.ok /\ h.loop # "" THEN h.loop ELSE "handle_key"
             /\ pc' = IF ~h.ok \/ h.ret # "Ok" \/ h.mode = "Quit" THEN "done"
                      ELSE IF h.loop # "" THEN "while"
                      ELSE IF io = "ScreenErr" THEN "done" ELSE "read"
             /\ ret' = IF ~h.ok THEN ret
                       ELSE IF h.ret # "Ok" THEN h.ret
                       ELSE IF h.mode = "Quit" THEN "Ok"
                       ELSE IF h.loop = "" /\ io = "ScreenErr" THEN io ELSE ret
  /\ SessionFrame

\* the test of the while loop of the search op; when the loop ends the
\* handler returns Mode::Normal and the pass ends with update_screen()?
LoopTest(io) ==
  /\ pc = "while"
  /\ IF loop_test_panics(op, cur, lines)
     THEN panicked' = TRUE /\ pc' = "done" /\ ret' = ret
     ELSE IF loop_done(op, cur, lines)
     THEN /\ panicked' = panicked
          /\ pc' = IF io = "ScreenErr" THEN "done" ELSE "read"
          /\ ret' = IF io = "ScreenErr" THEN io ELSE ret
     ELSE panicked' = panicked /\ pc' = "body" /\ ret' = ret
  /\ UNCHANGED <<lines, cur, clip, mode, events, key, op>>
  /\ SessionFrame

\* the body of the while loop of the search op
LoopBody ==
  /\ pc = "body"
  /\ LET m == loop_body(op, cur, lines, size)
     IN /\ cur' = m.cur
        /\ panicked' = ~m.ok
        /\ pc' = IF m.ok THEN "while" ELSE "done"
  /\ UNCHANGED <<lines, clip, mode, events, key, op, ret>>
  /\ SessionFrame

\* the key sequence has ended: the for loop ends and edit_buffer returns Ok
EndOfInput ==
  /\ pc = "read"
  /\ pc' = "done"
  /\ ret' = "Ok"
  /\ op' = "edit_buffer"
  /\ UNCHANGED <<lines, cur, clip, mode, events, key, panicked>>
  /\ SessionFrame

SessionNext ==
  \/ \E io \in {"Ok", "SizeErr", "ScreenErr"} : EditBufferStart(io)
  \/ \E k \in SessionKeys, io \in {"Ok", "KeyErr", "SizeErr", "WriteErr", "ScreenErr"} :
       KeyEvent(k, io)
  \/ \E io \in {"Ok", "ScreenErr"} : LoopTest(io)
  \/ LoopBody
  \/ EndOfInput

\* the process runs while it can: a read of the finite key sequence
\* returns a key or its end
SessionSpec == SessionInit /\ [][SessionNext]_vars /\ WF_vars(SessionNext)

----------------------------------------------------------------------------
(* handle_key on the full-screen window of a Screen of any size, a size of *)
(* zero rows or columns included (test_editor claims the full window of a  *)
(* 0 x 0 TestScreen).  An underflow in update_anchor panics in a build     *)
(* with overflow checks and wraps in a build without (release); ret tells  *)
(* whether the last update_anchor went below zero.                         *)

FullSizes == {Size(r, c) : r \in 0..MaxRows, c \in 0..MaxCols}

FullWindowInit ==
  /\ lines \in Buffers
  /\ editor = BufCursor_new
  /\ anchor = BufCursor_new
  /\ size \in FullSizes
  /\ release \in BOOLEAN
  /\ ret = "none"
  /\ key = NoKey
  /\ op = "new"
  /\ calls = <<>>
  /\ panicked = FALSE
  /\ cur = BufCursor_new
  /\ before = <<>>
  /\ start = BufCursor_new
  /\ windows = <<>>
  /\ win = None
  /\ wid = 0
  /\ screen = size
  /\ args = NoArgs
  /\ NoSession

\* ed.handle_key(&mut buf, &win, k): the match, then update_anchor(&win.size)
FullWindowKey(k) ==
  /\ ~panicked
  /\ WithinBounds(k)
  /\ LET h == handle_key_match(lines, editor, k)
         under == h.ok /\ update_anchor_underflows(h.editor, anchor, size)
     IN /\ lines' = h.lines
        /\ editor' = h.editor
        /\ anchor' = IF h.ok /\ (~under \/ release)
                     THEN update_anchor_wrapping(h.editor, anchor, size)
                     ELSE anchor
        /\ panicked' = (~h.ok \/ (under /\ ~release))
        /\ ret' = IF under THEN "underflow" ELSE IF h.ok THEN "Ok" ELSE ret
  /\ key' = k
  /\ op' = "handle_key"
  /\ UNCHANGED <<size, calls, cur, before, start, windows, win, wid, screen, args, release,
                 sessvars>>

FullWindowNext == \E k \in Keys : FullWindowKey(k)

FullWindowSpec == FullWindowInit /\ [][FullWindowNext]_vars

----------------
(* What the claims speak of, in terms of the state alone *)

\* the number of lines, and the length of line r (0 on the virtual row)
Height == Len(lines)

LineLen(r) == IF r < Len(lines) THEN Len(lines[r + 1]) ELSE 0

\* c is a valid coordinate of the buffer
IsValid(c) ==
  /\ c.row <= Height
  /\ c.col <= LineLen(c.row)
  /\ c.row = Height => c.col = 0

Returned(o) == op = o /\ ~panicked

----------------------------------------------------------------------------
(* C1: from BufEditor::new() over any buffer, no sequence of keys makes a  *)
(* Buffer operation called by handle_key hit a fatal contract violation.   *)
(* The code violates it: Backspace on the virtual row.                     *)
C1_NoContractViolation == op = "handle_key" => ~panicked

----------------------------------------------------------------------------
(* C2: after every handle_key call that returns, the editor cursor is a    *)
(* valid buffer coordinate: row <= height, col <= width(row), and col = 0  *)
(* on the virtual row.                                                     *)
C2_EditorValid == Returned("handle_key") => IsValid(editor)

\* a Backspace has merged two lines and left the editor inside the line
C2_Witness ==
  /\ Returned("handle_key")
  /\ key.k = "Backspace"
  /\ editor.col > 0
  /\ editor.col < LineLen(editor.row)

----------------------------------------------------------------------------
(* C3: after every handle_key call the editor cursor lies inside the       *)
(* visible rectangle of the call's window, whatever the key and whatever   *)
(* the size of the window of earlier calls.                                *)
C3_EditorVisible ==
  Returned("handle_key") =>
    /\ anchor.row <= editor.row
    /\ editor.row <= anchor.row + size.rows - 1
    /\ anchor.col <= editor.col
    /\ editor.col <= anchor.col + size.cols - 1

\* a window of several columns has scrolled right, the editor in its last column
C3_Witness ==
  /\ Returned("handle_key")
  /\ size.cols > 1
  /\ anchor.col > 0
  /\ editor.col = anchor.col + size.cols - 1

----------------------------------------------------------------------------
(* C4: update_anchor is a minimal scroll on each axis: an editor           *)
(* coordinate within [anchor, anchor + size - 1] leaves the anchor         *)
(* coordinate as it was, one below the anchor becomes the anchor, one      *)
(* above anchor + size - 1 makes the anchor editor - size + 1.             *)
MinimalScroll(e, a, n) ==
  IF a <= e /\ e <= a + n - 1 THEN a
  ELSE IF e < a THEN e
  ELSE e - n + 1

C4_MinimalScroll ==
  [][(op' = "handle_key" /\ ~panicked') =>
       /\ anchor'.col = MinimalScroll(editor'.col, anchor.col, size'.cols)
       /\ anchor'.row = MinimalScroll(editor'.row, anchor.row, size'.rows)]_vars

\* Left has scrolled a window of several columns back by one column
C4_Witness ==
  /\ Returned("handle_key")
  /\ key.k = "Left"
  /\ size.cols > 1
  /\ editor.col > 0
  /\ anchor.col = editor.col

----------------------------------------------------------------------------
(* C5: draw issues one put_at per existing buffer row of                   *)
(* [anchor.row, anchor.row + rows), in ascending row order, the write for  *)
(* buffer row r at the window-local position (r - anchor.row, 0).          *)
(* The code violates it: it writes row r at (r, anchor.col).               *)
C5_DrawPositions ==
  Returned("draw") =>
    /\ Len(calls) =
         Cardinality({r \in anchor.row..(anchor.row + size.rows - 1) : r < Height})
    /\ \A i \in 1..Len(calls) : calls[i].pos = Position(i - 1, 0)

----------------------------------------------------------------------------
(* C6: in every state reached through handle_key, draw completes without a *)
(* fatal failure and the text written for the i-th visible row is the      *)
(* characters of that line at the columns                                  *)
(* [anchor.col, min(anchor.col + cols, width)), empty for a line shorter   *)
(* than anchor.col.  The code violates it: such a line makes draw panic.   *)
Slice(l, from, to) == [j \in 1..(to - from) |-> l[from + j]]

C6_DrawSlices ==
  op = "draw" =>
    /\ ~panicked
    /\ \A i \in 1..Len(calls) :
         calls[i].text =
           Slice(lines[anchor.row + i], anchor.col,
                 Min(anchor.col + size.cols, LineLen(anchor.row + i - 1)))

----------------------------------------------------------------------------
(* C7: cursor movement is closed over valid positions: on any buffer and   *)
(* any valid cursor every BufCursor method returns without failure and     *)
(* leaves a valid cursor.                                                  *)
C7_MovesStayValid == ~panicked /\ IsValid(cur)

\* move_to_end_of_prev_line has put the cursor behind the last character
C7_Witness ==
  /\ Returned("move_to_end_of_prev_line")
  /\ cur.col > 0
  /\ cur.col = LineLen(cur.row)

----------------------------------------------------------------------------
(* C8: move_right on a valid cursor: inside a line only col grows by 1; at *)
(* the end of a line the cursor becomes (row + 1, 0), the virtual row      *)
(* after the last line; on the virtual row it stays.                       *)
C8_MoveRight ==
  [][(op' = "move_right" /\ IsValid(cur)) =>
       /\ ~panicked'
       /\ (cur.row < Height /\ cur.col < LineLen(cur.row)) =>
            cur' = BufCursor_at(cur.row, cur.col + 1)
       /\ (cur.row < Height /\ cur.col = LineLen(cur.row)) =>
            cur' = BufCursor_at(cur.row + 1, 0)
       /\ cur.row = Height => cur' = cur]_vars

\* move_right has left the cursor on the virtual row of a buffer with lines
C8_Witness ==
  /\ Returned("move_right")
  /\ Height > 0
  /\ cur = BufCursor_at(Height, 0)

----------------------------------------------------------------------------
(* C9: vertical movement is stateless clamping: move_up makes the row      *)
(* max(row - 1, 0), move_down makes it min(row + 1, height), and both make *)
(* the column min(old col, width(new row)).                                *)
C9_VerticalClamp ==
  [][/\ op' = "move_up" =>
          /\ ~panicked'
          /\ cur'.row = (IF cur.row > 0 THEN cur.row - 1 ELSE 0)
          /\ cur'.col = Min(cur.col, LineLen(cur'.row))
     /\ op' = "move_down" =>
          /\ ~panicked'
          /\ cur'.row = Min(cur.row + 1, Height)
          /\ cur'.col = Min(cur.col, LineLen(cur'.row))]_vars

\* move_down has come through an empty line onto a longer one, at column 0
C9_Witness ==
  /\ Returned("move_down")
  /\ cur = BufCursor_at(2, 0)
  /\ LineLen(0) > 0
  /\ LineLen(1) = 0
  /\ LineLen(2) > 0

----------------------------------------------------------------------------
(* C10: handle_key with a printable character ch at the editor position    *)
(* (r, c) inserts ch at column c of line r, creating line r first when r   *)
(* is the virtual row, changes no other line and leaves the editor at      *)
(* (r, c + 1).                                                             *)
C10_TypeChar ==
  [][(op' = "handle_key" /\ key'.k = "Char" /\ key'.ch # NL) =>
       LET r == editor.row
           c == editor.col
           old == IF r = Height THEN <<>> ELSE lines[r + 1]
           new == lines'[r + 1]
       IN /\ ~panicked'
          /\ editor' = BufCursor_at(r, c + 1)
          /\ Len(lines') = (IF r = Height THEN Height + 1 ELSE Height)
          /\ \A i \in 1..Height : i # r + 1 => lines'[i] = lines[i]
          /\ Len(new) = Len(old) + 1
          /\ new[c + 1] = key'.ch
          /\ \A j \in 1..c : new[j] = old[j]
          /\ \A j \in (c + 1)..Len(old) : new[j + 1] = old[j]]_vars

\* "a" then "b" have been typed: they stand in that order before the editor
C10_Witness ==
  /\ Returned("handle_key")
  /\ key = Key("Char", "b")
  /\ editor.col = 2
  /\ lines[editor.row + 1] = <<"a", "b">>

----------------------------------------------------------------------------
(* C11: handle_key with newline at the editor position (r, c) makes the    *)
(* buffer one line higher and leaves the editor at (r + 1, 0): on a line,  *)
(* line r keeps the columns [0, c) and the new line r + 1 holds the rest;  *)
(* on the virtual row one empty line is appended and the editor ends on    *)
(* the new virtual row.                                                    *)
C11_TypeNewline ==
  [][(op' = "handle_key" /\ key' = Key("Char", NL)) =>
       LET r == editor.row
           c == editor.col
       IN /\ ~panicked'
          /\ Len(lines') = Height + 1
          /\ editor' = BufCursor_at(r + 1, 0)
          /\ r < Height =>
               /\ Len(lines'[r + 1]) = c
               /\ \A j \in 1..c : lines'[r + 1][j] = lines[r + 1][j]
               /\ Len(lines'[r + 2]) = Len(lines[r + 1]) - c
               /\ \A j \in 1..(Len(lines[r + 1]) - c) :
                    lines'[r + 2][j] = lines[r + 1][c + j]
          /\ r = Height =>
               /\ lines'[Height + 1] = <<>>
               /\ \A i \in 1..Height : lines'[i] = lines[i]
               /\ editor'.row = Len(lines')]_vars

\* newline has split "ab" between its characters
C11_Witness ==
  /\ Returned("handle_key")
  /\ key = Key("Char", NL)
  /\ editor.row > 0
  /\ editor.row < Height
  /\ lines[editor.row] = <<"a">>
  /\ lines[editor.row + 1] = <<"b">>

----------------------------------------------------------------------------
(* C12: handle_key with Backspace at column 0 of any valid editor row > 0  *)
(* puts the editor at (row - 1, old width(row - 1)), makes line row - 1    *)
(* the old line row - 1 followed by the old line row, and lowers the       *)
(* height by one.  The code violates it on the virtual row, where          *)
(* merge_next_line_up panics (C1).                                         *)
C12_BackspaceMerges ==
  [][(op' = "handle_key" /\ key'.k = "Backspace"
        /\ editor.col = 0 /\ editor.row > 0) =>
       LET r == editor.row
       IN /\ ~panicked'
          /\ editor' = BufCursor_at(r - 1, LineLen(r - 1))
          /\ Len(lines') = Height - 1
          /\ lines'[r] = lines[r] \o (IF r < Height THEN lines[r + 1] ELSE <<>>)]_vars

----------------------------------------------------------------------------
(* C13: keys that are not edits leave the buffer unchanged: the arrows     *)
(* change at most the editor and the anchor; every other key that is not   *)
(* Char or Backspace, and Backspace with the editor at (0, 0), leave the   *)
(* buffer and the editor unchanged.                                        *)
C13_NonEditsKeepBuffer ==
  [][op' = "handle_key" =>
       /\ key'.k \in {"Left", "Right", "Up", "Down"} => lines' = lines
       /\ (\/ key'.k \notin {"Left", "Right", "Up", "Down", "Char", "Backspace"}
           \/ key'.k = "Backspace" /\ editor = BufCursor_new) =>
            /\ ~panicked'
            /\ lines' = lines
            /\ editor' = editor]_vars

\* Esc was handled behind the first column of a line
C13_Witness ==
  /\ Returned("handle_key")
  /\ key.k = "Esc"
  /\ editor.col > 0
  /\ Height > 0

----------------------------------------------------------------------------
(* C14: insert_at(ch, (r, c)) with r <= height and c <= width(r) makes     *)
(* line r the old columns [0, c), then ch, then the old columns from c on; *)
(* every other line stays, and the height stays unless r is the virtual    *)
(* row, where exactly one line is appended first.                          *)
C14_InsertAt ==
  [][(op' = "insert_at" /\ cur'.row <= Height /\ cur'.col <= LineLen(cur'.row)) =>
       LET r == cur'.row
           c == cur'.col
           old == IF r = Height THEN <<>> ELSE lines[r + 1]
           new == lines'[r + 1]
       IN /\ ~panicked'
          /\ Len(lines') = (IF r = Height THEN Height + 1 ELSE Height)
          /\ \A i \in 1..Height : i # r + 1 => lines'[i] = lines[i]
          /\ Len(new) = Len(old) + 1
          /\ new[c + 1] = key'.ch
          /\ \A j \in 1..c : new[j] = old[j]
          /\ \A j \in (c + 1)..Len(old) : new[j + 1] = old[j]]_vars

\* "b" was inserted at the column of "a" and has pushed it right
C14_Witness ==
  /\ Returned("insert_at")
  /\ key = Key("Char", "b")
  /\ cur.col = 0
  /\ lines[cur.row + 1] = <<"b", "a">>

----------------------------------------------------------------------------
(* C15: break_line_at((r, c)) on a line leaves line r the old columns      *)
(* [0, c), inserts the old columns from c on as the new line r + 1, shifts *)
(* the later lines down by one and changes no other line; at (height, 0)   *)
(* it appends one empty line and does nothing else.                        *)
C15_BreakLineAt ==
  [][op' = "break_line_at" =>
       LET r == cur'.row
           c == cur'.col
       IN /\ (r < Height /\ c <= LineLen(r)) =>
               /\ ~panicked'
               /\ Len(lines') = Height + 1
               /\ \A i \in 1..r : lines'[i] = lines[i]
               /\ lines'[r + 1] = [j \in 1..c |-> lines[r + 1][j]]
               /\ lines'[r + 2] = [j \in 1..(LineLen(r) - c) |-> lines[r + 1][c + j]]
               /\ \A i \in (r + 2)..Height : lines'[i + 1] = lines[i]
          /\ (r = Height /\ c = 0) =>
               /\ ~panicked'
               /\ Len(lines') = Height + 1
               /\ lines'[Height + 1] = <<>>
               /\ \A i \in 1..Height : lines'[i] = lines[i]]_vars

\* "ab" was split between its characters, the line after it moved down
C15_Witness ==
  /\ Returned("break_line_at")
  /\ cur = BufCursor_at(0, 1)
  /\ lines = << <<"a">>, <<"b">>, <<>> >>

----------------------------------------------------------------------------
(* C16: each Buffer mutator fails exactly on its documented precondition   *)
(* and checks it before it mutates: insert_at and break_line_at fail iff   *)
(* row > height or col > width(row); delete_before fails iff col = 0,      *)
(* row >= height or col > width(row); merge_next_line_up fails iff         *)
(* row + 1 >= height; a failing call leaves the buffer unchanged.          *)
C16_FailsOnPrecondition ==
  [][LET r == cur'.row
         c == cur'.col
     IN /\ op' \in {"insert_at", "break_line_at"} =>
             (panicked' <=> (r > Height \/ c > LineLen(r)))
        /\ op' = "delete_before" =>
             (panicked' <=> (c = 0 \/ r >= Height \/ c > LineLen(r)))
        /\ op' = "merge_next_line_up" =>
             (panicked' <=> r + 1 >= Height)
        /\ panicked' => lines' = lines]_vars

\* insert_at has failed at column 1 of the virtual row
C16_Witness ==
  /\ panicked
  /\ op = "insert_at"
  /\ cur = BufCursor_at(Height, 1)

----------------------------------------------------------------------------
(* C17: insert_at(ch, (r, c)) on a line (r < height, c <= width(r))        *)
(* followed by delete_before((r, c + 1)) restores the whole buffer.        *)
C17_InsertDeleteRoundTrip ==
  (op = "delete_before" /\ cur.row < Len(before)) =>
    /\ ~panicked
    /\ lines = before

\* a character put in front of a line of two has been deleted again
C17_Witness ==
  /\ Returned("delete_before")
  /\ cur.row < Len(before)
  /\ cur.col = 1
  /\ Len(before[cur.row + 1]) = 2

----------------------------------------------------------------------------
(* C18: break_line_at((r, c)) on a line (r < height, c <= width(r))        *)
(* followed by merge_next_line_up((r, any column)) restores the buffer:    *)
(* the same height and the same lines.                                     *)
C18_BreakMergeRoundTrip ==
  (op = "merge_next_line_up" /\ cur.row < Len(before)) =>
    /\ ~panicked
    /\ lines = before

\* a line of two has been merged again, with a column past its end
C18_Witness ==
  /\ Returned("merge_next_line_up")
  /\ cur.row < Len(before)
  /\ Len(before[cur.row + 1]) = 2
  /\ cur.col > 2

----------------------------------------------------------------------------
(* C19: in every buffer the mutators reach, width(height) is 0, width(r)   *)
(* is the length of line r for r < height, and width(r) fails for          *)
(* r > height.                                                             *)
C19_Width ==
  /\ ~width_panics(lines, Len(lines))
  /\ width(lines, Len(lines)) = 0
  /\ \A r \in 0..(Len(lines) - 1) :
       ~width_panics(lines, r) /\ width(lines, r) = Len(lines[r + 1])
  /\ \A r \in (Len(lines) + 1)..(Len(lines) + 2) : width_panics(lines, r)

\* a mutator has left a buffer whose last line has characters
C19_Witness ==
  /\ Returned("merge_next_line_up")
  /\ Height > 0
  /\ LineLen(Height - 1) > 1

----------------------------------------------------------------------------
(* C20: from lines without a line-break character, no sequence of Buffer   *)
(* mutations (insert_at with any character) and of keys leaves a line that *)
(* contains a line-break character.  The code violates it: insert_at       *)
(* inserts a line break like any other character.                          *)
C20_NoLineBreakInLines ==
  \A i \in 1..Len(lines) : \A j \in 1..Len(lines[i]) : lines[i][j] # NL

----------------------------------------------------------------------------
----------------------------------------------------------------------------
(* C29: horizontal moves are inverse to each other on valid cursors:       *)
(* move_right then move_left returns to the original cursor unless that    *)
(* was the terminal position (height, 0), move_left then move_right        *)
(* returns to it unless it was (0, 0); the wraps between lines and onto    *)
(* the virtual row included.                                               *)
C29_HorizontalInverse ==
  /\ (op = "move_right;move_left" /\ start # BufCursor_at(Height, 0)) =>
       /\ ~panicked
       /\ cur = start
  /\ (op = "move_left;move_right" /\ start # BufCursor_at(0, 0)) =>
       /\ ~panicked
       /\ cur = start

\* right then left has come back from the virtual row to the end of the
\* last line, which has characters
C29_Witness ==
  /\ Returned("move_right;move_left")
  /\ Height > 0
  /\ start = BufCursor_at(Height - 1, LineLen(Height - 1))
  /\ LineLen(Height - 1) > 0
  /\ cur = start

----------------------------------------------------------------------------
(* C30: typing is undone by Backspace at the controller level: with the    *)
(* editor on a line (editor.row < height), handle_key(Char(ch)) with a     *)
(* printable ch followed by handle_key(Backspace) restores the buffer and  *)
(* the editor cursor exactly, and so does handle_key(newline) followed by  *)
(* handle_key(Backspace).                                                  *)
C30_BackspaceUndoesTyping ==
  (op \in {"Char;Backspace", "newline;Backspace"} /\ start.row < Len(before)) =>
    /\ ~panicked
    /\ lines = before
    /\ editor = start

\* a newline typed between the two characters of a line, with a line
\* after it, has been undone
C30_Witness ==
  /\ Returned("newline;Backspace")
  /\ start.col = 1
  /\ start.row + 1 < Len(before)
  /\ Len(before[start.row + 1]) = 2
  /\ lines = before

----------------------------------------------------------------------------
(* C21: a Window resolved from the handle returned by create(position,     *)
(* size) translates by its own origin: each put_at(text, local) makes      *)
(* exactly one Screen put_at, with the same text, at                       *)
(* (position.row + local.row, position.col + local.col), also after        *)
(* further windows were created; borrow_mut of a handle never issued       *)
(* yields no window.  The code violates it where a sum passes the largest  *)
(* u16: it panics before the Screen is called, or wraps the sum.           *)
C21_WindowTranslates ==
  /\ op = "put_at" =>
       LET w == windows[wid + 1]
       IN calls = << PutAt(args.text,
                           Position(w.position.row + args.position.row,
                                    w.position.col + args.position.col)) >>
  /\ (op = "borrow_mut" /\ wid >= Len(windows)) =>
       /\ ret = "None"
       /\ win = <<>>

----------------------------------------------------------------------------
(* C22: Window.put_at fails exactly when the translated absolute position  *)
(* lies outside the current size of the Screen, whatever the nominal size  *)
(* of the window: with no I/O failure, it fails iff                        *)
(* position.row + local.row >= rows or position.col + local.col >= cols of *)
(* the Screen.  The code violates it where the sum wraps (C21): the write  *)
(* lands inside the Screen.                                                *)
C22_FailsOutsideScreen ==
  (op = "put_at" /\ args.io = "Ok") =>
    LET w == windows[wid + 1]
        row == w.position.row + args.position.row
        col == w.position.col + args.position.col
    IN (panicked \/ ret # "Ok") <=> ~(row < screen.rows /\ col < screen.cols)

----------------------------------------------------------------------------
(* C23: blank() on a window of size rows x cols at origin (r0, c0) writes  *)
(* a single space at (r0 + r, c0 + c) for every cell, each once, in        *)
(* row-major order: the Screen writes it issues are the first ones of that *)
(* sequence, and all rows * cols of them when it returns without failure.  *)
C23_BlankRowMajor ==
  op = "blank" =>
    LET w == windows[wid + 1]
        rows == w.size.rows
        cols == w.size.cols
    IN /\ Len(calls) <= rows * cols
       /\ \A r \in 0..(rows - 1) : \A c \in 0..(cols - 1) :
            r * cols + c + 1 <= Len(calls) =>
              calls[r * cols + c + 1] =
                PutAt(<<" ">>, Position(w.position.row + r, w.position.col + c))
       /\ (~panicked /\ ret = "Ok") => Len(calls) = rows * cols

\* a window of 2 x 2 at (2, 4) was blanked: four writes, none failed
C23_Witness ==
  /\ Returned("blank")
  /\ ret = "Ok"
  /\ win = << Window_new(Position(2, 4), Size(2, 2)) >>
  /\ Len(calls) = 4
  /\ calls[2].pos = Position(2, 5)

----------------------------------------------------------------------------
(* C24: for one WindowManager at most one resolved Window is alive at any  *)
(* time: a borrow_mut takes place only when the Window resolved before has *)
(* been released, and every Screen write goes through the one Window       *)
(* alive, the one the latest borrow_mut resolved.                          *)
C24_OneWindowAlive ==
  /\ Len(win) <= 1
  /\ op \in {"put_at", "blank"} => win = << windows[wid + 1] >>

\* the second window was resolved after the first had been written through
\* and released
C24_Witness ==
  /\ Returned("borrow_mut")
  /\ ret = "Some"
  /\ wid = 1
  /\ Len(windows) = 2
  /\ windows[1] # windows[2]
  /\ win = << windows[2] >>

----------------------------------------------------------------------------
(* C28: a Screen write failure is propagated and stops the operation: when *)
(* a Screen put_at returns an error during draw or blank, the operation    *)
(* returns that error at once, issues no further Screen write and leaves   *)
(* the buffer, the editor cursor and the anchor unchanged.                 *)
C28_WriteFailurePropagates ==
  [][LET f == args'.f
     IN (/\ op' \in {"draw", "blank"}
         /\ f >= 1
         /\ Len(calls') >= f
         /\ (args'.io = "SizeErr" \/ contains(screen', calls'[f].pos))) =>
          /\ ~panicked'
          /\ ret' = args'.io
          /\ Len(calls') = f
          /\ lines' = lines
          /\ editor' = editor
          /\ anchor' = anchor]_vars

\* the write of the second row drawn has failed
C28_Witness ==
  /\ Returned("draw")
  /\ ret = "WriteErr"
  /\ args.f = 2
  /\ Len(calls) = 2
  /\ Len(lines) >= 2

----------------------------------------------------------------------------
(* C27: in main.rs vertical movement at the buffer edges has no effect:    *)
(* move_cursor_up with the cursor on row 0, and move_cursor_down with the  *)
(* cursor on the virtual row (row = number of lines), leave the cursor     *)
(* position (row, col) and the first visible line and column (top, left)   *)
(* as they were before the call.                                           *)
C27_EdgesHaveNoEffect ==
  /\ (op = "move_cursor_up" /\ start.row = 0) => cur = start
  /\ (op = "move_cursor_down" /\ start.row = Len(lines)) => cur = start

----------------------------------------------------------------------------
(* C25: for every finite sequence of key events and every buffer the       *)
(* session terminates: the handling of each key finishes, and the loop     *)
(* ends at the first quit or at the end of the key sequence, so that       *)
(* every session eventually reaches the state where edit_buffer has        *)
(* returned (or the process has ended), after which nothing is handled     *)
(* or drawn.                                                               *)
C25_SessionTerminates == <>(pc = "done")

----------------------------------------------------------------------------
(* C31: handle_key completes without unsigned underflow in update_anchor   *)
(* for every window size, a window of zero rows or zero columns included:  *)
(* in no reachable state do anchor + size - 1 or editor - size + 1 go      *)
(* below zero.                                                             *)
C31_NoUnderflow == ret # "underflow"

====
